---- MODULE Spec2Model ----
(***************************************************************************)
(* Model of the LocalLM retrieval pipeline (jinderbrar/LocalLM).           *)
(*                                                                         *)
(* Several specifications share this module:                               *)
(*   SpecChunk  the chunker (chunkPages / chunkText / findSentenceBoundary)*)
(*              run on page texts drawn from a bounded family;             *)
(*   Spec       the object store, RAGPipeline.ingest, the delete handler,  *)
(*              the retrievers and RAGPipeline.query, one operation in     *)
(*              flight at a time, each advancing one await at a step.      *)
(*   SpecQuery  the stages of a query under every configuration;           *)
(*   SpecRank   the three retrievers applied to the same inputs;           *)
(*   SpecUpload the writers of the document rows: pipeline ingests, the    *)
(*              Sources panel's upload handler and deletes;                *)
(*   SpecLog    the DebugLogger's event buffer;                            *)
(*   SpecLatency the LatencyTracker and its statistics;                    *)
(*   SpecConfig ConfigManager over localStorage, with JSON texts;          *)
(*   SpecStrategy the registry look-ups of ingest and query, under         *)
(*              configurations and query modes that name unregistered ids; *)
(*   SpecSample the Chat panel's loading of the sample document;           *)
(*   SpecEmbedder the callers that initialize the embedding model;         *)
(*   SpecOverlap two ingest calls in flight at once;                       *)
(*   SpecTwoQueries two query calls in flight at once and their logger.    *)
(* A specification leaves the other ones' variables at their idle values.  *)
(***************************************************************************)
EXTENDS Integers, Sequences, FiniteSets, TLC

VARIABLES
  \* ---- chunker (core/chunk/chunker.ts) ----
  ckPages,      \* chunkPages argument: sequence of page texts
  ckConfig,     \* ChunkerConfig {chunkSize, overlapPercent}
  ckPc,         \* "idle" | "pages" | "loop" | "done"
  ckPage,       \* index (1-based) of the page the for-loop is at
  chunkIndex,   \* chunkPages: let chunkIndex
  position,     \* chunkText: let position
  chunkId,      \* chunkText: let chunkId
  pageChunks,   \* chunkText: const chunks (of the page in progress)
  ckChunks,     \* chunkPages: const chunks (accumulated over pages)
  \* ---- object store (core/storage/db.ts, indexCache.ts) ----
  docs,         \* STORES.DOCS: doc id -> Doc
  chunksStore,  \* STORES.CHUNKS: chunk id -> Chunk
  vectors,      \* STORES.VECTORS: chunk id -> embedding
  fileBlobs,    \* STORES.FILE_BLOBS: set of doc ids holding a blob
  lexicalIndex, \* STORES.LEXICAL_INDEX: the serialized snapshot, or NoIndex
  \* ---- pipeline and strategies ----
  config,       \* RAGPipeline.config (the selections the model follows)
  bm25Index,    \* BM25Retriever.index
  hybridIndex,  \* HybridRetriever.lexicalIndex
  ing,          \* the RAGPipeline.ingest call in flight
  del,          \* the handleDeleteDoc call in flight
  qry,          \* the RAGPipeline.query call in flight
  events,       \* DebugLogger.events carrying the latest query id
  currentQueryId, \* DebugLogger.currentQueryId
  measurements, \* LatencyTracker.measurements.length
  ev,           \* what the step just taken did (call returned / threw)
  hist,         \* history: ids handed out, deletes and writes completed
  \* ---- components run on their own ----
  rank,         \* the retrievers applied to one query, index and chunk list
  up,           \* the Sources panel's handleFileSelect in flight
  logger,       \* a DebugLogger: its event buffer and current query id
  tracker,      \* a LatencyTracker: its measurements
  manager,      \* ConfigManager: localStorage and what its calls returned
  sample,       \* the Chat panel's checkDocuments and the sample-loaded key
  embedder,     \* the embedding model and the callers that initialize it
  writers,      \* two RAGPipeline.ingest calls in flight at once
  callers       \* two RAGPipeline.query calls in flight at once

chunkVars == <<ckPages, ckConfig, ckPc, ckPage, chunkIndex, position, chunkId,
               pageChunks, ckChunks>>

storeVars == <<docs, chunksStore, vectors, fileBlobs, lexicalIndex>>
logVars == <<events, currentQueryId, measurements>>
pipeVars == <<storeVars, config, bm25Index, hybridIndex, ing, del, qry,
              logVars, ev, hist>>

concVars == <<sample, embedder, writers, callers>>
auxVars == <<rank, up, logger, tracker, manager, concVars>>

vars == <<chunkVars, pipeVars, auxVars>>

Min(a, b) == IF a < b THEN a ELSE b
Max(a, b) == IF a > b THEN a ELSE b

(***************************************************************************)
(* Characters and page texts.  A text is a sequence of characters; index i *)
(* of the JavaScript string is element i+1 of the sequence.                *)
(***************************************************************************)
NL == "NL"                       \* the newline character
IsSpace(c) == c \in {" ", NL}    \* \s in the regular expressions, trim()
IsPunct(c) == c \in {".", "!", "?"}

\* text.slice(a, b) for 0 <= a; an end past the text is clamped to its length
Slice(text, a, b) == SubSeq(text, a + 1, Min(b, Len(text)))

\* text.trim().length
TrimLen(text) ==
  LET idx == {i \in 1..Len(text) : ~IsSpace(text[i])}
  IN  IF idx = {} THEN 0
      ELSE (CHOOSE i \in idx : \A j \in idx : j <= i)
           - (CHOOSE i \in idx : \A j \in idx : j >= i) + 1

\* position of the last element of a non-empty set of naturals
SetMax(S) == CHOOSE i \in S : \A j \in S : j <= i

(***************************************************************************)
(* Bounds of the chunker inputs.                                           *)
(***************************************************************************)
MaxTextLen == 230     \* longest page text
MaxPages   == 2       \* pages per document
MaxLoop    == 6       \* cap on chunks emitted for one page (loop guard)

\* findSentenceBoundary looks at the last LookBack characters of the window
LookBack == 100
\* slider limits of the fixed-size chunker
MinChunkSize == 100
MaxOverlapPercent == 30

TextLens == {0, 60, 100, 177, MaxTextLen}
MarkAts  == {0, 5, 75, 99, 120}
MarkKinds == {"none", "sent", "para", "space", "gap", "blank"}

\* a page of letters with one marker at (0-based) index at
MkText(len, kind, at) ==
  [i \in 1..len |->
     CASE kind = "blank" -> " "
       [] kind = "sent"  /\ i = at + 1 -> "."
       [] kind = "sent"  /\ i = at + 2 -> " "
       [] kind = "para"  /\ i \in {at + 1, at + 2} -> NL
       [] kind = "space" /\ i = at + 1 -> " "
       [] kind = "gap"   /\ i > at /\ i <= at + LookBack + 10 -> " "
       [] OTHER -> "a"]

Texts == {MkText(len, kind, at) : len \in TextLens, kind \in MarkKinds, at \in MarkAts}
SecondPageTexts == {MkText(0, "none", 0), MkText(60, "sent", 5), MkText(60, "blank", 0)}

PageLists ==
  {<<t>> : t \in Texts}
  \cup (IF MaxPages >= 2 THEN {<<t, u>> : t \in Texts, u \in SecondPageTexts} ELSE {})

ChunkerConfigs ==
  {[chunkSize |-> s, overlapPercent |-> p] :
     s \in {MinChunkSize, 150}, p \in {0, 10, MaxOverlapPercent}}

TheDocId == "doc1"

(***************************************************************************)
(* findSentenceBoundary(text, start, end)                                  *)
(***************************************************************************)
findSentenceBoundary(text, start, end) ==
  LET searchStart == Max(start, end - LookBack)
      searchText  == Slice(text, searchStart, end)
      n           == Len(searchText)
      \* 0-based indices of the matches of /[.!?]\s+/g in searchText
      matches     == {i \in 0..(n - 2) :
                        IsPunct(searchText[i + 1]) /\ IsSpace(searchText[i + 2])}
      \* 0-based indices where "\n\n" occurs
      paras       == {i \in 0..(n - 2) :
                        searchText[i + 1] = NL /\ searchText[i + 2] = NL}
      spaces      == {i \in 0..(n - 1) : searchText[i + 1] = " "}
      paragraphBreak == IF paras = {} THEN -1 ELSE SetMax(paras)
      spaceIndex     == IF spaces = {} THEN -1 ELSE SetMax(spaces)
  IN  IF matches # {} THEN searchStart + SetMax(matches) + 1
      ELSE IF paragraphBreak > 0 THEN searchStart + paragraphBreak + 2
      ELSE IF spaceIndex > 0 THEN searchStart + spaceIndex + 1
      ELSE end

\* const overlapSize = Math.floor(chunkSize * (overlapPercent / 100))
OverlapSize(cfg) == (cfg.chunkSize * cfg.overlapPercent) \div 100

\* const end = Math.min(position + chunkSize, text.length)
WindowEndNoClamp(pos, cfg, text) == pos + cfg.chunkSize
WindowEnd(pos, cfg, text) == Min(pos + cfg.chunkSize, Len(text))

\* chunkEnd of the window starting at pos
ChunkEnd(pos, cfg, text) ==
  LET end == WindowEnd(pos, cfg, text)
  IN  IF end < Len(text)
      THEN LET sentenceEnd == findSentenceBoundary(text, pos, end)
           IN  IF sentenceEnd > pos THEN sentenceEnd ELSE end
      ELSE end

\* position after the window [pos, chunkEnd): chunkEnd - overlapSize, or
\* chunkEnd when that is not positive
NextPosition(pos, chunkEnd, cfg) ==
  LET p == chunkEnd - OverlapSize(cfg)
  IN  IF p <= 0 THEN chunkEnd ELSE p

\* chunkPages: chunkIndex += pageChunks.length
NextChunkIndexPerPage(index, emitted) == IF Len(emitted) > 0 THEN index + 1 ELSE index
NextChunkIndex(index, emitted) == index + Len(emitted)

(***************************************************************************)
(* Idle values of the two groups of variables.                             *)
(***************************************************************************)
NoIndex == [null |-> TRUE]   \* null / undefined lexical index
\* an optional value: Undefined when absent, Some(v) when present
Undefined == <<>>
Some(v) == <<v>>
Null == "null"
EmptyMap == [x \in {} |-> 0]

IdleOp == [pc |-> "idle"]
NoEvent == [type |-> "none"]

ConcIdle ==
  /\ sample = IdleOp
  /\ embedder = IdleOp
  /\ writers = IdleOp
  /\ callers = IdleOp

AuxIdle ==
  /\ rank = IdleOp
  /\ up = IdleOp
  /\ logger = IdleOp
  /\ tracker = IdleOp
  /\ manager = IdleOp
  /\ ConcIdle

ChunkIdle ==
  /\ ckPages = <<>>
  /\ ckConfig = [chunkSize |-> MinChunkSize, overlapPercent |-> 0]
  /\ ckPc = "idle"
  /\ ckPage = 1
  /\ chunkIndex = 0
  /\ position = 0
  /\ chunkId = 0
  /\ pageChunks = <<>>
  /\ ckChunks = <<>>

PipeIdle ==
  /\ docs = EmptyMap
  /\ chunksStore = EmptyMap
  /\ vectors = EmptyMap
  /\ fileBlobs = {}
  /\ lexicalIndex = NoIndex
  /\ config = [chunking |-> "fixed-size", embedding |-> "minilm-l6-v2",
               retrieval |-> "semantic", topK |-> Some(5),
               generation |-> "extractive-distilbert-qa",
               postProcess |-> "polish", polishEnabled |-> FALSE]
  /\ bm25Index = NoIndex
  /\ hybridIndex = NoIndex
  /\ ing = IdleOp
  /\ del = IdleOp
  /\ qry = IdleOp
  /\ events = <<>>
  /\ currentQueryId = Null
  /\ measurements = 0
  /\ ev = NoEvent
  /\ hist = [usedIds |-> {}, deleted |-> {}, lastWrite |-> "none", ops |-> 0,
               failures |-> 0]

(***************************************************************************)
(* The chunker as a state machine.                                         *)
(***************************************************************************)
CurText == ckPages[ckPage]

\* chunkPages reaches the next page of its for-loop and calls chunkText
ChunkTextCall ==
  /\ UNCHANGED <<pipeVars, auxVars>>
  /\ ckPc = "pages"
  /\ ckPage <= Len(ckPages)
  /\ IF TrimLen(CurText) = 0
     THEN \* if (!text.trim()) return []
          /\ chunkIndex' = NextChunkIndex(chunkIndex, <<>>)
          /\ ckPage' = ckPage + 1
          /\ UNCHANGED <<ckPc, position, chunkId, pageChunks>>
     ELSE /\ ckPc' = "loop"
          /\ position' = 0
          /\ chunkId' = chunkIndex
          /\ pageChunks' = <<>>
          /\ UNCHANGED <<chunkIndex, ckPage>>
  /\ UNCHANGED <<ckPages, ckConfig, ckChunks>>

\* the chunk emitted (or not) for the window at position
EmitChunk(text, pos, chunkEnd) ==
  IF TrimLen(Slice(text, pos, chunkEnd)) > 0
  THEN <<[id          |-> <<TheDocId, chunkId>>,
          docId       |-> TheDocId,
          pageNumber  |-> ckPage,
          textLen     |-> TrimLen(Slice(text, pos, chunkEnd)),
          startOffset |-> pos,
          endOffset   |-> chunkEnd]>>
  ELSE <<>>

\* one iteration of the while loop of chunkText that goes round again
ChunkTextStep ==
  /\ UNCHANGED <<pipeVars, auxVars>>
  /\ ckPc = "loop"
  /\ position < Len(CurText)
  /\ Len(pageChunks) < MaxLoop
  /\ LET chunkEnd == ChunkEnd(position, ckConfig, CurText)
         emitted  == EmitChunk(CurText, position, chunkEnd)
     IN  /\ chunkEnd < Len(CurText)
         /\ pageChunks' = pageChunks \o emitted
         /\ chunkId' = chunkId + Len(emitted)
         /\ position' = NextPosition(position, chunkEnd, ckConfig)
  /\ UNCHANGED <<ckPages, ckConfig, ckPc, ckPage, chunkIndex, ckChunks>>

\* the last iteration (break), or the loop condition failing: chunkText
\* returns and chunkPages appends the page's chunks
ChunkTextReturn ==
  /\ UNCHANGED <<pipeVars, auxVars>>
  /\ ckPc = "loop"
  /\ LET chunkEnd == ChunkEnd(position, ckConfig, CurText)
         emitted  == IF position < Len(CurText)
                     THEN EmitChunk(CurText, position, chunkEnd) ELSE <<>>
         result   == pageChunks \o emitted
     IN  /\ position < Len(CurText) => chunkEnd >= Len(CurText)
         /\ ckChunks' = ckChunks \o result
         /\ chunkIndex' = NextChunkIndex(chunkIndex, result)
         /\ pageChunks' = result
         /\ chunkId' = chunkId + Len(emitted)
  /\ ckPage' = ckPage + 1
  /\ ckPc' = "pages"
  /\ UNCHANGED <<ckPages, ckConfig, position>>

\* the for-loop of chunkPages is over: return chunks
ChunkPagesReturn ==
  /\ UNCHANGED <<pipeVars, auxVars>>
  /\ ckPc = "pages"
  /\ ckPage > Len(ckPages)
  /\ ckPc' = "done"
  /\ UNCHANGED <<ckPages, ckConfig, ckPage, chunkIndex, position, chunkId,
                 pageChunks, ckChunks>>

InitChunk ==
  /\ ckPages \in PageLists
  /\ ckConfig \in ChunkerConfigs
  /\ PipeIdle
  /\ AuxIdle
  /\ ckPc = "pages"
  /\ ckPage = 1
  /\ chunkIndex = 0
  /\ position = 0
  /\ chunkId = 0
  /\ pageChunks = <<>>
  /\ ckChunks = <<>>

NextChunk ==
  \/ ChunkTextCall
  \/ ChunkTextStep
  \/ ChunkTextReturn
  \/ ChunkPagesReturn

SpecChunk == InitChunk /\ [][NextChunk]_vars

(***************************************************************************)
(* Properties of the chunker.                                              *)
(***************************************************************************)
\* every chunk emitted so far by the chunkPages call, in emission order
Emitted == IF ckPc = "loop" THEN ckChunks \o pageChunks ELSE ckChunks

\* C8: chunkText terminates: after each window that is not the last one the
\* start position of the next window is strictly greater than the current one.
C8_StrictProgress == [][ChunkTextStep => position' > position]_vars

\* C9: every emitted chunk c has 0 <= c.startOffset < c.endOffset <= length of
\* its page's text, and c.endOffset - c.startOffset <= chunkSize.
C9_ChunkOffsets ==
  \A i \in 1..Len(Emitted) :
    LET c == Emitted[i]
    IN  /\ 0 <= c.startOffset
        /\ c.startOffset < c.endOffset
        /\ c.endOffset <= Len(ckPages[c.pageNumber])
        /\ c.endOffset - c.startOffset <= ckConfig.chunkSize

\* chunkPages returned several chunks, one of them cut at a sentence boundary
\* before the raw window end and one ending at the end of its page
C9_Witness ==
  /\ ckPc = "done"
  /\ Len(ckChunks) >= 3
  /\ \E i \in 1..Len(ckChunks) :
       /\ ckChunks[i].endOffset < Len(ckPages[ckChunks[i].pageNumber])
       /\ ckChunks[i].endOffset - ckChunks[i].startOffset < ckConfig.chunkSize
  /\ \E i \in 1..Len(ckChunks) :
       ckChunks[i].endOffset = Len(ckPages[ckChunks[i].pageNumber])

\* C10: the chunks emitted for one document carry the ids docId-chunk-0,
\* docId-chunk-1, ..., docId-chunk-(n-1) in emission order, across pages.
C10_ChunkIds ==
  \A i \in 1..Len(Emitted) : Emitted[i].id = <<TheDocId, i - 1>>

\* chunkPages returned chunks of two different pages, the first page having
\* produced more than one chunk
C10_Witness ==
  /\ ckPc = "done"
  /\ \E i, j \in 1..Len(ckChunks) :
       /\ i < j
       /\ ckChunks[i].pageNumber = 1
       /\ ckChunks[j].pageNumber = 2
       /\ j > 2

(***************************************************************************)
(* The object store, the lexical index and the pipeline.                   *)
(***************************************************************************)
MaxDocs     == 2    \* documents ingested in one run
MaxOps      == 5    \* operations (ingest, delete, query, setConfig) started in one run
MaxFailures == 1    \* rejected awaits in one run
LatencyMaxSize == 100   \* new LatencyTracker(maxSize = 100)

DocIds == 1..MaxDocs

Range(f) == {f[x] : x \in DOMAIN f}
Put(f, k, v) == [x \in DOMAIN f \cup {k} |-> IF x = k THEN v ELSE f[x]]
Remove(f, k) == [x \in DOMAIN f \ {k} |-> f[x]]

RECURSIVE SumSeq(_)
SumSeq(q) == IF q = <<>> THEN 0 ELSE Head(q) + SumSeq(Tail(q))

\* key order of the chunks store (chunk ids <<doc, ordinal>>)
KeyLess(a, b) == a[1] < b[1] \/ (a[1] = b[1] /\ a[2] < b[2])

RECURSIVE SortKeys(_)
SortKeys(S) ==
  IF S = {} THEN <<>>
  ELSE LET m == CHOOSE x \in S : \A y \in S : x = y \/ KeyLess(x, y)
       IN  <<m>> \o SortKeys(S \ {m})

(* ---- tokenizer (core/index_lex/tokenizer.ts); a text is a sequence of    *)
(* ---- lowercase words                                                      *)
STOP_WORDS == {"a", "an", "and", "are", "as", "at", "be", "by", "for", "from",
               "has", "he", "in", "is", "it", "its", "of", "on", "that", "the",
               "to", "was", "will", "with"}

tokenize(text) == SelectSeq(text, LAMBDA w : w \notin STOP_WORDS)

computeTermFrequency(tokens) ==
  [t \in Range(tokens) |-> Cardinality({i \in DOMAIN tokens : tokens[i] = t})]

(* ---- buildLexicalIndex (core/index_lex/bm25.ts) ---- *)
buildLexicalIndex(chunks) ==
  LET tfOf(i) == computeTermFrequency(tokenize(chunks[i].text))
      terms   == UNION {DOMAIN tfOf(i) : i \in DOMAIN chunks}
      ids     == [i \in DOMAIN chunks |-> chunks[i].id]
      lens    == [i \in DOMAIN chunks |-> Len(tokenize(chunks[i].text))]
  IN  [docFreq  |-> [t \in terms |->
                       Cardinality({i \in DOMAIN chunks : t \in DOMAIN tfOf(i)})],
       termFreq |-> [c \in Range(ids) |->
                       tfOf(SetMax({i \in DOMAIN chunks : ids[i] = c}))],
       chunkIds |-> ids,
       \* avgDocLength = totalLength / chunks.length, kept as a fraction
       avgDocLength |-> IF Len(chunks) > 0 THEN <<SumSeq(lens), Len(chunks)>>
                        ELSE <<0, 1>>]

(* ---- saveLexicalIndex / loadLexicalIndex (core/storage/indexCache.ts) -- *)
MapEntries(m) == {<<k, m[k]>> : k \in DOMAIN m}
MapOf(entries) ==
  [k \in {e[1] : e \in entries} |-> (CHOOSE e \in entries : e[1] = k)[2]]

Serialize(index) ==
  [docFreq  |-> MapEntries(index.docFreq),
   termFreq |-> {<<c, MapEntries(index.termFreq[c])>> : c \in DOMAIN index.termFreq},
   chunkIds |-> index.chunkIds,
   avgDocLength |-> index.avgDocLength]

loadLexicalIndex(stored) ==
  IF stored = NoIndex THEN NoIndex
  ELSE [docFreq  |-> MapOf(stored.docFreq),
        termFreq |-> MapOf({<<e[1], MapOf(e[2])>> : e \in stored.termFreq}),
        chunkIds |-> stored.chunkIds,
        avgDocLength |-> stored.avgDocLength]

(* ---- store reads (core/storage/db.ts) ---- *)
getAllChunks == [i \in 1..Cardinality(DOMAIN chunksStore) |->
                   chunksStore[SortKeys(DOMAIN chunksStore)[i]]]

\* getChunksByDocId: the chunks whose docId index entry is id
getChunksByDocIdAll(id) == getAllChunks
getChunksByDocId(id) == SelectSeq(getAllChunks, LAMBDA c : c.docId = id)

StoreSnapshot == [docs |-> docs, chunks |-> chunksStore, vectors |-> vectors,
                  blobs |-> fileBlobs]

(* ---- embedders ---- *)
\* MiniLM (generateEmbedding): a deterministic unit-length vector per text;
\* the model scales every vector by 5 to stay in the integers
generateEmbedding(text) ==
  LET toks == Range(tokenize(text))
  IN  CASE toks = {"fox"} -> <<5, 0>>
        [] toks = {"dog"} -> <<0, 5>>
        [] toks = {"fox", "dog"} -> <<3, 4>>
        [] OTHER -> <<4, 3>>
\* a second registered EmbeddingStrategy with another `dimensions`
otherEmbedding(text) == generateEmbedding(text) \o <<0>>

EmbeddingRegistry == {"minilm-l6-v2", "other-embedder"}
\* ChunkingRegistry.register(new FixedSizeChunker())
ChunkingRegistry == {"fixed-size"}

embedBatch(strategyId, texts) ==
  [i \in DOMAIN texts |->
     IF strategyId = "minilm-l6-v2" THEN generateEmbedding(texts[i])
     ELSE otherEmbedding(texts[i])]

(* ---- files handed to ingest: kind and the texts of the chunks the       *)
(* ---- chunker makes of its pages                                          *)
Files ==
  {[type |-> "txt", texts |-> << <<"the", "fox">>, <<"dog", "dog", "fox">> >>],
   [type |-> "pdf", texts |-> << <<"dog">> >>],
   [type |-> "md",  texts |-> <<>>],
   [type |-> "unknown", texts |-> <<>>]}

\* chunkingStrategy.chunk(pages): ids docId-chunk-0 .. docId-chunk-(n-1)
ChunksOfFile(d, file) ==
  [i \in DOMAIN file.texts |-> [id |-> <<d, i - 1>>, docId |-> d, text |-> file.texts[i]]]

\* doc.name = file.name; names are the negative numbers, ids the positive
DocName(d) == -d

Quiescent == ing.pc = "idle" /\ del.pc = "idle" /\ qry.pc = "idle" /\ up.pc = "idle"

Step == [type |-> "step"]

(***************************************************************************)
(* RAGPipeline.ingest, one await per action.                               *)
(***************************************************************************)
\* the chunks the lexical index is rebuilt from (getAllChunks())
IngestIndexChunksOwn(allChunks, ownChunks) == ownChunks
IngestIndexChunks(allChunks, ownChunks) == allChunks

IngestStart(file, d) ==
  /\ Quiescent
  /\ hist.ops < MaxOps
  /\ d \in DocIds \ hist.usedIds
  /\ IF file.type = "unknown" \/ config.chunking \notin ChunkingRegistry
     THEN \* ingestFile throws: Unsupported file type; or, after it,
          \* throw new Error('Chunking strategy not found')
          /\ ev' = [type |-> "ingestThrow", doc |-> d,
                    cause |-> IF file.type = "unknown" THEN "unsupported"
                              ELSE "chunking",
                    before |-> storeVars]
          /\ hist' = [hist EXCEPT !.ops = @ + 1]
          /\ UNCHANGED ing
     ELSE /\ ing' = [pc |-> "saveDoc",
                     before |-> storeVars,
                     doc |-> [id |-> d, name |-> DocName(d), type |-> file.type,
                              status |-> [parsed |-> TRUE,
                                          indexedLexical |-> FALSE,
                                          indexedVector |-> FALSE]],
                     chunks |-> ChunksOfFile(d, file),
                     i |-> 1,
                     embeddings |-> <<>>,
                     lexicalIndex |-> NoIndex]
          /\ hist' = [hist EXCEPT !.usedIds = @ \cup {d}, !.lastWrite = "inflight",
                                  !.ops = @ + 1]
          /\ ev' = Step
  /\ UNCHANGED <<chunkVars, auxVars, storeVars, config, bm25Index, hybridIndex, del, qry,
                 logVars>>

IngestFrame == UNCHANGED <<chunkVars, auxVars, config, bm25Index, hybridIndex, del, qry,
                           logVars>>

\* await saveDoc(doc)
IngestSaveDoc ==
  /\ ing.pc = "saveDoc"
  /\ docs' = Put(docs, ing.doc.id, ing.doc)
  /\ ing' = [ing EXCEPT !.pc = IF ing.doc.type = "pdf" THEN "saveFileBlob"
                               ELSE IF Len(ing.chunks) > 0 THEN "saveChunk"
                               ELSE "embed"]
  /\ ev' = Step
  /\ UNCHANGED <<chunksStore, vectors, fileBlobs, lexicalIndex, hist>>
  /\ IngestFrame

\* await saveFileBlob(doc.id, file)
IngestSaveFileBlob ==
  /\ ing.pc = "saveFileBlob"
  /\ fileBlobs' = fileBlobs \cup {ing.doc.id}
  /\ ing' = [ing EXCEPT !.pc = IF Len(ing.chunks) > 0 THEN "saveChunk" ELSE "embed"]
  /\ ev' = Step
  /\ UNCHANGED <<docs, chunksStore, vectors, lexicalIndex, hist>>
  /\ IngestFrame

\* for (const chunk of chunks) await saveChunk(chunk)
IngestSaveChunk ==
  /\ ing.pc = "saveChunk"
  /\ chunksStore' = Put(chunksStore, ing.chunks[ing.i].id, ing.chunks[ing.i])
  /\ ing' = IF ing.i < Len(ing.chunks)
            THEN [ing EXCEPT !.i = @ + 1]
            ELSE [ing EXCEPT !.i = 1, !.pc = "embed"]
  /\ ev' = Step
  /\ UNCHANGED <<docs, vectors, fileBlobs, lexicalIndex, hist>>
  /\ IngestFrame

\* EmbeddingRegistry.get, initialize, embedBatch(texts)
IngestEmbed ==
  /\ ing.pc = "embed"
  /\ IF config.embedding \notin EmbeddingRegistry
     THEN \* throw new Error('Embedding strategy not found')
          /\ ing' = IdleOp
          /\ ev' = [type |-> "ingestThrow", doc |-> ing.doc.id,
                    cause |-> "embedding", before |-> ing.before]
          /\ hist' = [hist EXCEPT !.lastWrite = "failed"]
     ELSE /\ ing' = [ing EXCEPT
                       !.embeddings = embedBatch(config.embedding,
                                        [i \in DOMAIN ing.chunks |-> ing.chunks[i].text]),
                       !.pc = IF Len(ing.chunks) > 0 THEN "saveVector"
                              ELSE "saveDocVector"]
          /\ ev' = Step
          /\ UNCHANGED hist
  /\ UNCHANGED storeVars
  /\ IngestFrame

\* for (i ...) await saveVector(chunks[i].id, embeddings[i])
IngestSaveVector ==
  /\ ing.pc = "saveVector"
  /\ vectors' = Put(vectors, ing.chunks[ing.i].id, ing.embeddings[ing.i])
  /\ ing' = IF ing.i < Len(ing.chunks)
            THEN [ing EXCEPT !.i = @ + 1]
            ELSE [ing EXCEPT !.i = 1, !.pc = "saveDocVector"]
  /\ ev' = Step
  /\ UNCHANGED <<docs, chunksStore, fileBlobs, lexicalIndex, hist>>
  /\ IngestFrame

\* doc.status.indexedVector = true; await saveDoc(doc)
IngestSaveDocVector ==
  /\ ing.pc = "saveDocVector"
  /\ LET doc == [ing.doc EXCEPT !.status.indexedVector = TRUE]
     IN  /\ docs' = Put(docs, doc.id, doc)
         /\ ing' = [ing EXCEPT !.doc = doc, !.pc = "getAllChunks"]
  /\ ev' = Step
  /\ UNCHANGED <<chunksStore, vectors, fileBlobs, lexicalIndex, hist>>
  /\ IngestFrame

\* const allChunks = await getAllChunks(); buildLexicalIndex(allChunks)
IngestGetAllChunks ==
  /\ ing.pc = "getAllChunks"
  /\ ing' = [ing EXCEPT
               !.lexicalIndex = buildLexicalIndex(IngestIndexChunks(getAllChunks, ing.chunks)),
               !.pc = "saveLexicalIndex"]
  /\ ev' = Step
  /\ UNCHANGED <<storeVars, hist>>
  /\ IngestFrame

\* await saveLexicalIndex(lexicalIndex)
IngestSaveLexicalIndex ==
  /\ ing.pc = "saveLexicalIndex"
  /\ lexicalIndex' = Serialize(ing.lexicalIndex)
  /\ ing' = [ing EXCEPT !.pc = "saveDocLexical"]
  /\ ev' = Step
  /\ UNCHANGED <<docs, chunksStore, vectors, fileBlobs, hist>>
  /\ IngestFrame

\* doc.status.indexedLexical = true; await saveDoc(doc); return
IngestSaveDocLexical ==
  /\ ing.pc = "saveDocLexical"
  /\ LET doc == [ing.doc EXCEPT !.status.indexedLexical = TRUE]
     IN  docs' = Put(docs, doc.id, doc)
  /\ ing' = IdleOp
  /\ ev' = [type |-> "ingestReturn", doc |-> ing.doc.id]
  /\ hist' = [hist EXCEPT !.lastWrite = "completed"]
  /\ UNCHANGED <<chunksStore, vectors, fileBlobs, lexicalIndex>>
  /\ IngestFrame

\* the awaited store request or the embedder rejects: catch, rethrow
IngestFail ==
  /\ ing.pc # "idle"
  /\ hist.failures < MaxFailures
  /\ ing' = IdleOp
  /\ ev' = [type |-> "ingestThrow", doc |-> ing.doc.id,
            cause |-> "store", before |-> ing.before]
  /\ hist' = [hist EXCEPT !.lastWrite = "failed", !.failures = @ + 1]
  /\ UNCHANGED storeVars
  /\ IngestFrame

(***************************************************************************)
(* Sources.handleFileSelect: the upload handler of the Sources panel, one  *)
(* await per action.  It ingests every selected file, rebuilds the lexical *)
(* index once, then marks the documents.  Every file it parses gets a new  *)
(* document id (generateDocId hashes the name, the size and Date.now()).   *)
(***************************************************************************)
MaxUploadFiles == 2

UploadLists == UNION {[1..n -> Files] : n \in 1..MaxUploadFiles}

\* core/ingest isFileSupported
isFileSupported(file) == file.type \in {"txt", "md", "pdf"}

\* the docs store read in key order (getAllDocs())
RECURSIVE SortIds(_)
SortIds(S) ==
  IF S = {} THEN <<>>
  ELSE LET m == CHOOSE x \in S : \A y \in S : x <= y
       IN  <<m>> \o SortIds(S \ {m})

getAllDocs == [k \in 1..Cardinality(DOMAIN docs) |-> docs[SortIds(DOMAIN docs)[k]]]

UploadFrame == UNCHANGED <<chunkVars, rank, logger, tracker, manager, concVars, config,
                           bm25Index,
                           hybridIndex, ing, del, qry, logVars>>

\* const files = event.target.files; if (files.length === 0) return
UploadStart(files) ==
  /\ Quiescent
  /\ hist.ops < MaxOps
  /\ Cardinality(DocIds \ hist.usedIds) >= Len(files)
  /\ up' = [pc |-> "file", files |-> files, doc |-> Null, chunks |-> <<>>, i |-> 1,
            allDocs |-> <<>>]
  /\ hist' = [hist EXCEPT !.lastWrite = "inflight", !.ops = @ + 1]
  /\ ev' = Step
  /\ UNCHANGED storeVars
  /\ UploadFrame

\* the head of the loop over the files: an unsupported file is skipped,
\* another one is parsed (ingestFile) and chunked (chunkPages)
UploadNextFile(d) ==
  /\ up.pc = "file"
  /\ Len(up.files) > 0
  /\ d \in DocIds \ hist.usedIds
  /\ LET file == Head(up.files)
     IN  IF ~isFileSupported(file)
         THEN /\ up' = [up EXCEPT !.files = Tail(@)]
              /\ UNCHANGED hist
         ELSE /\ up' = [up EXCEPT
                          !.files = Tail(@),
                          !.doc = [id |-> d, name |-> DocName(d), type |-> file.type,
                                   status |-> [parsed |-> TRUE,
                                               indexedLexical |-> FALSE,
                                               indexedVector |-> FALSE]],
                          !.chunks = ChunksOfFile(d, file),
                          !.i = 1,
                          !.pc = "saveDoc"]
              /\ hist' = [hist EXCEPT !.usedIds = @ \cup {d}]
  /\ ev' = Step
  /\ UNCHANGED storeVars
  /\ UploadFrame

\* await saveDoc(doc)
UploadSaveDoc ==
  /\ up.pc = "saveDoc"
  /\ docs' = Put(docs, up.doc.id, up.doc)
  /\ up' = [up EXCEPT !.pc = IF Len(up.chunks) > 0 THEN "saveChunk" ELSE "saveDocVector"]
  /\ ev' = Step
  /\ UNCHANGED <<chunksStore, vectors, fileBlobs, lexicalIndex, hist>>
  /\ UploadFrame

\* for (const chunk of chunks) await saveChunk(chunk)
UploadSaveChunk ==
  /\ up.pc = "saveChunk"
  /\ chunksStore' = Put(chunksStore, up.chunks[up.i].id, up.chunks[up.i])
  /\ up' = IF up.i < Len(up.chunks)
           THEN [up EXCEPT !.i = @ + 1]
           ELSE [up EXCEPT !.i = 1, !.pc = "buildVectorIndex"]
  /\ ev' = Step
  /\ UNCHANGED <<docs, vectors, fileBlobs, lexicalIndex, hist>>
  /\ UploadFrame

\* buildVectorIndex(chunks), one chunk per step: a chunk without a stored
\* vector gets generateEmbedding(chunk.text)
UploadBuildVectorIndex ==
  /\ up.pc = "buildVectorIndex"
  /\ LET c == up.chunks[up.i]
     IN  vectors' = IF c.id \in DOMAIN vectors
                    THEN vectors
                    ELSE Put(vectors, c.id, generateEmbedding(c.text))
  /\ up' = IF up.i < Len(up.chunks)
           THEN [up EXCEPT !.i = @ + 1]
           ELSE [up EXCEPT !.i = 1, !.pc = "saveDocVector"]
  /\ ev' = Step
  /\ UNCHANGED <<docs, chunksStore, fileBlobs, lexicalIndex, hist>>
  /\ UploadFrame

\* doc.status.indexedLexical = false; doc.status.indexedVector = true;
\* await saveDoc(doc)
UploadSaveDocVector ==
  /\ up.pc = "saveDocVector"
  /\ LET doc == [up.doc EXCEPT !.status.indexedLexical = FALSE,
                               !.status.indexedVector = TRUE]
     IN  /\ docs' = Put(docs, doc.id, doc)
         /\ up' = [up EXCEPT !.doc = doc, !.pc = "file"]
  /\ ev' = Step
  /\ UNCHANGED <<chunksStore, vectors, fileBlobs, lexicalIndex, hist>>
  /\ UploadFrame

\* after the loop: rebuildLexicalIndex(), then const allDocs = getAllDocs()
UploadRebuildLexicalIndex ==
  /\ up.pc = "file"
  /\ Len(up.files) = 0
  /\ lexicalIndex' = Serialize(buildLexicalIndex(getAllChunks))
  /\ up' = [up EXCEPT !.pc = "markDocs",
                      !.allDocs = getAllDocs,
                      !.i = 1]
  /\ ev' = Step
  /\ UNCHANGED <<docs, chunksStore, vectors, fileBlobs, hist>>
  /\ UploadFrame

\* for (const doc of allDocs) if (!doc.status.indexedLexical) { ...= true;
\* await saveDoc(doc) }
UploadMarkDoc ==
  /\ up.pc = "markDocs"
  /\ up.i <= Len(up.allDocs)
  /\ LET doc == up.allDocs[up.i]
     IN  docs' = IF doc.status.indexedLexical
                 THEN docs
                 ELSE Put(docs, doc.id, [doc EXCEPT !.status.indexedLexical = TRUE])
  /\ up' = [up EXCEPT !.i = @ + 1]
  /\ ev' = Step
  /\ UNCHANGED <<chunksStore, vectors, fileBlobs, lexicalIndex, hist>>
  /\ UploadFrame

\* await loadDocs(); the handler returns
UploadReturn ==
  /\ up.pc = "markDocs"
  /\ up.i > Len(up.allDocs)
  /\ up' = IdleOp
  /\ ev' = [type |-> "uploadReturn"]
  /\ hist' = [hist EXCEPT !.lastWrite = "completed"]
  /\ UNCHANGED storeVars
  /\ UploadFrame

\* an awaited call rejects: catch (err) { setError(...) }
UploadFail ==
  /\ up.pc # "idle"
  /\ hist.failures < MaxFailures
  /\ up' = IdleOp
  /\ ev' = [type |-> "uploadError"]
  /\ hist' = [hist EXCEPT !.lastWrite = "failed", !.failures = @ + 1]
  /\ UNCHANGED storeVars
  /\ UploadFrame

(***************************************************************************)
(* handleDeleteDoc: deleteDoc(docId), rebuildLexicalIndex().               *)
(***************************************************************************)
\* the id handleDeleteDoc(docId, docName) passes to deleteDoc
DeleteDocArgName(docId, docName) == docName
DeleteDocArg(docId, docName) == docId

DeleteFrame == UNCHANGED <<chunkVars, auxVars, config, bm25Index, hybridIndex, ing, qry,
                           logVars>>

DeleteStart(d) ==
  /\ Quiescent
  /\ hist.ops < MaxOps
  /\ d \in DOMAIN docs
  /\ del' = [pc |-> "removeDoc", docId |-> d,
             id |-> DeleteDocArg(d, docs[d].name),
             chunks |-> <<>>, i |-> 1, pre |-> StoreSnapshot,
             index |-> NoIndex]
  /\ hist' = [hist EXCEPT !.lastWrite = "inflight", !.ops = @ + 1]
  /\ ev' = Step
  /\ UNCHANGED storeVars
  /\ DeleteFrame

\* await remove(STORES.DOCS, id)
DeleteRemoveDoc ==
  /\ del.pc = "removeDoc"
  /\ docs' = Remove(docs, del.id)
  /\ del' = [del EXCEPT !.pc = "deleteFileBlob"]
  /\ ev' = Step
  /\ UNCHANGED <<chunksStore, vectors, fileBlobs, lexicalIndex, hist>>
  /\ DeleteFrame

\* await deleteFileBlob(id)
DeleteFileBlob ==
  /\ del.pc = "deleteFileBlob"
  /\ fileBlobs' = fileBlobs \ {del.id}
  /\ del' = [del EXCEPT !.pc = "getChunksByDocId"]
  /\ ev' = Step
  /\ UNCHANGED <<docs, chunksStore, vectors, lexicalIndex, hist>>
  /\ DeleteFrame

DeleteDocReturn == [type |-> "deleteDocReturn", id |-> del.id, pre |-> del.pre]

\* const chunks = await getChunksByDocId(id)
DeleteGetChunks ==
  /\ del.pc = "getChunksByDocId"
  /\ LET chunks == getChunksByDocId(del.id)
     IN  /\ del' = [del EXCEPT !.chunks = chunks, !.i = 1,
                               !.pc = IF Len(chunks) > 0 THEN "removeChunk"
                                      ELSE "getAllChunks"]
         /\ ev' = IF Len(chunks) > 0 THEN Step ELSE DeleteDocReturn
  /\ UNCHANGED <<storeVars, hist>>
  /\ DeleteFrame

\* await remove(STORES.CHUNKS, chunk.id)
DeleteRemoveChunk ==
  /\ del.pc = "removeChunk"
  /\ chunksStore' = Remove(chunksStore, del.chunks[del.i].id)
  /\ del' = [del EXCEPT !.pc = "removeVector"]
  /\ ev' = Step
  /\ UNCHANGED <<docs, vectors, fileBlobs, lexicalIndex, hist>>
  /\ DeleteFrame

\* await remove(STORES.VECTORS, chunk.id); after the last chunk deleteDoc returns
DeleteRemoveVector ==
  /\ del.pc = "removeVector"
  /\ vectors' = Remove(vectors, del.chunks[del.i].id)
  /\ IF del.i < Len(del.chunks)
     THEN /\ del' = [del EXCEPT !.i = @ + 1, !.pc = "removeChunk"]
          /\ ev' = Step
     ELSE /\ del' = [del EXCEPT !.pc = "getAllChunks"]
          /\ ev' = DeleteDocReturn
  /\ UNCHANGED <<docs, chunksStore, fileBlobs, lexicalIndex, hist>>
  /\ DeleteFrame

\* rebuildLexicalIndex: const chunks = await getAllChunks(); buildLexicalIndex
DeleteRebuildGetAllChunks ==
  /\ del.pc = "getAllChunks"
  /\ del' = [del EXCEPT !.index = buildLexicalIndex(getAllChunks),
                        !.pc = "saveLexicalIndex"]
  /\ ev' = Step
  /\ UNCHANGED <<storeVars, hist>>
  /\ DeleteFrame

\* rebuildLexicalIndex: await saveLexicalIndex(index); loadDocs(); return
DeleteRebuildSave ==
  /\ del.pc = "saveLexicalIndex"
  /\ lexicalIndex' = Serialize(del.index)
  /\ del' = IdleOp
  /\ ev' = [type |-> "deleteReturn", doc |-> del.docId]
  /\ hist' = [hist EXCEPT !.lastWrite = "completed", !.deleted = @ \cup {del.docId}]
  /\ UNCHANGED <<docs, chunksStore, vectors, fileBlobs>>
  /\ DeleteFrame

\* an awaited store request rejects: catch (err) setError(...)
DeleteFail ==
  /\ del.pc # "idle"
  /\ hist.failures < MaxFailures
  /\ del' = IdleOp
  /\ ev' = [type |-> "deleteThrow", doc |-> del.docId]
  /\ hist' = [hist EXCEPT !.lastWrite = "failed", !.failures = @ + 1]
  /\ UNCHANGED storeVars
  /\ DeleteFrame

(***************************************************************************)
(* Scores are fractions <<numerator, denominator>>, denominator > 0.       *)
(***************************************************************************)
RECURSIVE GCD(_, _)
GCD(a, b) == IF b = 0 THEN a ELSE GCD(b, a % b)
Abs(a) == IF a < 0 THEN -a ELSE a
\* lowest terms
Reduce(a) ==
  LET g == GCD(Abs(a[1]), a[2])
  IN  <<a[1] \div g, a[2] \div g>>

RLess(a, b) == a[1] * b[2] < b[1] * a[2]
REq(a, b)   == a[1] * b[2] = b[1] * a[2]
RSub(a, b)  == Reduce(<<a[1] * b[2] - b[1] * a[2], a[2] * b[2]>>)
RAdd(a, b)  == Reduce(<<a[1] * b[2] + b[1] * a[2], a[2] * b[2]>>)
RMul(a, b)  == Reduce(<<a[1] * b[1], a[2] * b[2]>>)
\* a / b for b > 0
RDiv(a, b)  == Reduce(<<a[1] * b[2], a[2] * b[1]>>)
Zero == <<0, 1>>
One  == <<1, 1>>

Take(q, k) == SubSeq(q, 1, Min(k, Len(q)))

\* a sort that puts equal scores in reverse order
SortByScoreUnstable(items) ==
  LET n == Len(items)
      place(i) == 1 + Cardinality({j \in 1..n :
                       \/ RLess(items[i].score, items[j].score)
                       \/ (REq(items[i].score, items[j].score) /\ j > i)})
  IN  [k \in 1..n |-> items[CHOOSE i \in 1..n : place(i) = k]]

\* Array.prototype.sort((a, b) => b.score - a.score): stable, descending
SortByScore(items) ==
  LET n == Len(items)
      place(i) == 1 + Cardinality({j \in 1..n :
                       \/ RLess(items[i].score, items[j].score)
                       \/ (REq(items[i].score, items[j].score) /\ j < i)})
  IN  [k \in 1..n |-> items[CHOOSE i \in 1..n : place(i) = k]]

RECURSIVE SumMap(_)
SumMap(m) ==
  IF DOMAIN m = {} THEN 0
  ELSE LET k == CHOOSE x \in DOMAIN m : TRUE
       IN  m[k] + SumMap([x \in DOMAIN m \ {k} |-> m[x]])

(* ---- computeBM25Score / search (core/index_lex/bm25.ts) ---- *)
\* K1 = 1.5 and B = 0.75 as fractions
K1Num == 3
K1Den == 2
BNum  == 3
BDen  == 4

\* The score of a query of at most one token; the idf factor
\* log((N - df + 0.5) / (df + 0.5) + 1) is positive and the same for every
\* chunk, so the score is kept in units of it.  With avgDocLength =
\* total / n the tf component tf (K1 + 1) / (tf + K1 (1 - B + B L / avg)) is
\* the fraction below.
computeBM25Score(queryTokens, c, index) ==
  IF c \notin DOMAIN index.termFreq THEN Zero
  ELSE IF queryTokens = <<>> THEN Zero
  ELSE LET chunkTF == index.termFreq[c]
           term    == queryTokens[1]
           tf      == IF term \in DOMAIN chunkTF THEN chunkTF[term] ELSE 0
           df      == IF term \in DOMAIN index.docFreq THEN index.docFreq[term] ELSE 0
           L       == SumMap(chunkTF)
           total   == index.avgDocLength[1]
           n       == index.avgDocLength[2]
       IN  IF df = 0 THEN Zero
           ELSE Reduce(<<tf * (K1Num + K1Den) * BDen * total,
                         K1Den * BDen * total * tf
                           + K1Num * ((BDen - BNum) * total + BNum * L * n)>>)

ChunkIdsOf(chunks) == {chunks[i].id : i \in DOMAIN chunks}
\* new Map(chunks.map((c) => [c.id, c])).get(id)
ChunkById(chunks, id) == chunks[SetMax({i \in DOMAIN chunks : chunks[i].id = id})]

\* a variant that keeps every scored id of the index, also one that
\* chunksMap does not hold
bm25SearchUnfiltered(query, index, chunks, topK) ==
  LET toks == tokenize(query)
      kept == SelectSeq(index.chunkIds,
                LAMBDA c : RLess(Zero, computeBM25Score(toks, c, index)))
      scores == [i \in DOMAIN kept |->
                   [chunk |-> IF kept[i] \in ChunkIdsOf(chunks)
                              THEN ChunkById(chunks, kept[i])
                              ELSE [id |-> kept[i], docId |-> kept[i][1], text |-> <<>>],
                    score |-> computeBM25Score(toks, kept[i], index)]]
  IN  Take(SortByScore(scores), topK)

bm25Search(query, index, chunks, topK) ==
  LET toks == tokenize(query)
      kept == SelectSeq(index.chunkIds,
                LAMBDA c : /\ c \in ChunkIdsOf(chunks)
                           /\ RLess(Zero, computeBM25Score(toks, c, index)))
      scores == [i \in DOMAIN kept |->
                   [chunk |-> ChunkById(chunks, kept[i]),
                    score |-> computeBM25Score(toks, kept[i], index)]]
  IN  Take(SortByScore(scores), topK)

(* ---- buildVectorIndex / semanticSearch (core/index_vec/vectorIndex.ts) - *)
\* the vectors store after buildVectorIndex(chunks): a chunk without a
\* vector gets generateEmbedding(chunk.text)
VectorsAfterBuild(chunks) ==
  [c \in DOMAIN vectors \cup ChunkIdsOf(chunks) |->
     IF c \in DOMAIN vectors THEN vectors[c]
     ELSE generateEmbedding(ChunkById(chunks, c).text)]

Dot(a, b) == SumSeq([i \in DOMAIN a |-> a[i] * b[i]])
\* every vector of the model has squared norm 25
NormSq == 25
SameDimension(a, b) == Len(a) = Len(b)
cosineSimilarity(a, b) == Reduce(<<Dot(a, b), NormSq>>)

\* cosineSimilarity throws 'Vectors must have same dimension'
semanticSearchThrows(query, chunks, vecs) ==
  \E i \in DOMAIN chunks : ~SameDimension(generateEmbedding(query), vecs[chunks[i].id])

semanticSearch(query, chunks, vecs, topK) ==
  LET scores == [i \in DOMAIN chunks |->
                   [chunk |-> ChunkById(chunks, chunks[i].id),
                    score |-> cosineSimilarity(generateEmbedding(query),
                                               vecs[chunks[i].id])]]
  IN  Take(SortByScore(scores), topK)

(* ---- normalizeScores (core/rank/index.ts) ---- *)
normalizeScores(results) ==
  LET idx == DOMAIN results
      minI == CHOOSE i \in idx : \A j \in idx : ~RLess(results[j].score, results[i].score)
      maxI == CHOOSE i \in idx : \A j \in idx : ~RLess(results[i].score, results[j].score)
      range == RSub(results[maxI].score, results[minI].score)
  IN  [c \in {results[i].chunk.id : i \in idx} |->
         LET r == results[SetMax({i \in idx : results[i].chunk.id = c})]
         IN  IF RLess(Zero, range) THEN RDiv(RSub(r.score, results[minI].score), range)
             ELSE One]

(* ---- HybridRetriever.retrieve, after the index is in place ---- *)
hybridSearch(query, index, chunks, vecs, topK, alpha) ==
  LET lexicalResults  == bm25Search(query, index, chunks, Len(chunks))
      semanticResults == semanticSearch(query, chunks, vecs, Len(chunks))
      lexicalMap  == IF lexicalResults = <<>> THEN EmptyMap ELSE normalizeScores(lexicalResults)
      semanticMap == IF semanticResults = <<>> THEN EmptyMap ELSE normalizeScores(semanticResults)
      \* new Set([...lexicalMap.keys(), ...semanticMap.keys()]) in insertion order
      lexIds == [i \in DOMAIN lexicalResults |-> lexicalResults[i].chunk.id]
      semIds == SelectSeq([i \in DOMAIN semanticResults |-> semanticResults[i].chunk.id],
                          LAMBDA c : c \notin DOMAIN lexicalMap)
      allChunkIds == lexIds \o semIds
      lexScore(c) == IF c \in DOMAIN lexicalMap THEN lexicalMap[c] ELSE Zero
      semScore(c) == IF c \in DOMAIN semanticMap THEN semanticMap[c] ELSE Zero
      \* .map(([chunkId, score]) => ({ chunk: chunksMap.get(chunkId)!, score }))
      \* .filter((r) => r.chunk)
      present == SelectSeq(allChunkIds, LAMBDA c : c \in ChunkIdsOf(chunks))
      combined == [i \in DOMAIN present |->
                     [chunk |-> ChunkById(chunks, present[i]),
                      score |-> RAdd(RMul(alpha, semScore(present[i])),
                                     RMul(RSub(One, alpha), lexScore(present[i])))]]
  IN  Take(SortByScore(combined), topK)

(***************************************************************************)
(* RAGPipeline.setConfig (the settings panel's save).                      *)
(***************************************************************************)
ConfigTopKs == {Some(5), Undefined}
Configs == [chunking : {"fixed-size"}, embedding : EmbeddingRegistry,
            retrieval : {"semantic"}, topK : ConfigTopKs,
            generation : {"extractive-distilbert-qa"},
            postProcess : {"polish"}, polishEnabled : BOOLEAN]

\* ConfigManager.getDefaultConfig()
DefaultConfig ==
  [chunking |-> "fixed-size", embedding |-> "minilm-l6-v2",
   retrieval |-> "semantic", topK |-> Some(5),
   generation |-> "extractive-distilbert-qa",
   postProcess |-> "polish", polishEnabled |-> FALSE]

SetConfig(c) ==
  /\ Quiescent
  /\ hist.ops < MaxOps
  /\ c # config
  /\ config' = c
  /\ ev' = [type |-> "setConfig"]
  /\ hist' = [hist EXCEPT !.ops = @ + 1]
  /\ UNCHANGED <<chunkVars, auxVars, storeVars, bm25Index, hybridIndex, ing, del, qry, logVars>>

(***************************************************************************)
(* RAGPipeline.query.                                                      *)
(***************************************************************************)
RetrievalRegistry == {"bm25", "semantic", "hybrid"}
\* ExtractiveGenerator: this.id = `extractive-${modelId}`, registered for
\* 'distilbert-qa' and 'roberta-qa'
GenerationRegistry == {"extractive-distilbert-qa", "extractive-roberta-qa"}
\* PostProcessRegistry.register(new AnswerPolisher())
PostProcessRegistry == {"polish"}
\* a query without a mode (undefined and '' are both falsy)
NoMode == ""
\* const retrievalStrategyId = query.mode || this.config.retrieval.strategyId
RetrievalStrategyId(query, cfg) ==
  IF query.mode # NoMode THEN query.mode ELSE cfg.retrieval
QueryModes  == RetrievalRegistry
QueryTexts  == {<<"fox">>, <<"the", "dog">>, <<"the">>}
QueryTopKs  == {Undefined, Some(1)}
QueryAlphas == {Undefined}
ChatModes   == {"search", "chat"}
Queries == [text : QueryTexts, mode : QueryModes, topK : QueryTopKs,
            alpha : QueryAlphas, chatMode : ChatModes]

\* retrievalConfig = { topK: query.topK || 10, alpha: query.alpha,
\*                     ...this.config.retrieval.config }, then config.topK ?? 10
RetrievalTopK(query, cfg) ==
  IF cfg.topK # Undefined THEN cfg.topK[1]
  ELSE IF query.topK # Undefined THEN query.topK[1] ELSE 10
\* config.alpha ?? 0.5
RetrievalAlpha(query) == IF query.alpha # Undefined THEN query.alpha[1] ELSE <<1, 2>>

Event(type) == [type |-> type, queryId |-> currentQueryId]

\* what a finished query call hands to its caller
QueryEnd(type, stage, record) ==
  [type |-> type, stage |-> stage, query |-> record.query,
   retriever |-> record.retriever, index |-> record.index,
   retrieved |-> record.retrieved, citations |-> record.citations,
   answer |-> record.answer, generatedAnswer |-> record.generatedAnswer,
   gen |-> record.gen, pp |-> record.pp,
   pc |-> record.pc, before |-> record.before, measured |-> record.measured,
   chunks |-> record.chunks]

QueryFrame == UNCHANGED <<chunkVars, auxVars, config, ing, del>>

\* catch (error) { debugLogger.logError(error, ...); throw error }
QueryThrow(stage, record) ==
  /\ qry' = IdleOp
  /\ events' = Append(events, Event("error"))
  /\ ev' = QueryEnd("queryThrow", stage, record)
  /\ UNCHANGED <<currentQueryId, measurements>>

\* a variant that logs query_complete ahead of the stage events
QueryReturnCompleteFirst(record, logged) ==
  /\ qry' = IdleOp
  /\ measurements' = IF measurements + 1 > LatencyMaxSize THEN LatencyMaxSize
                     ELSE measurements + 1
  /\ events' = <<Event("query_complete")>> \o logged
  /\ currentQueryId' = Null
  /\ ev' = QueryEnd("queryReturn", "complete", record)

\* queryLatencyTracker.record; debugLogger.logQueryComplete; return
QueryReturn(record, logged) ==
  /\ qry' = IdleOp
  /\ measurements' = IF measurements + 1 > LatencyMaxSize THEN LatencyMaxSize
                     ELSE measurements + 1
  /\ events' = Append(logged, Event("query_complete"))
  /\ currentQueryId' = Null
  /\ ev' = QueryEnd("queryReturn", "complete", record)

\* startQuery, RetrievalRegistry.get, logRetrievalStart, await getAllChunks()
QueryStart(query) ==
  /\ Quiescent
  /\ hist.ops < MaxOps
  /\ hist' = [hist EXCEPT !.ops = @ + 1]
  /\ currentQueryId' = hist.ops + 1
  /\ LET retriever == RetrievalStrategyId(query, config)
         record == [pc |-> IF retriever = "semantic" THEN "search" ELSE "index",
                    query |-> query, retriever |-> retriever,
                    before |-> storeVars, measured |-> measurements,
                    chunks |-> getAllChunks, index |-> NoIndex,
                    retrieved |-> <<>>, citations |-> <<>>,
                    answer |-> Undefined, generatedAnswer |-> Undefined,
                    gen |-> "none", pp |-> "none"]
         started == <<[type |-> "query_start", queryId |-> currentQueryId']>>
     IN  IF retriever \notin RetrievalRegistry
         THEN \* throw new Error('Retrieval strategy not found')
              /\ qry' = IdleOp
              /\ events' = Append(started, [type |-> "error", queryId |-> currentQueryId'])
              /\ ev' = QueryEnd("queryThrow", "resolve", record)
         ELSE /\ qry' = record
              /\ events' = Append(started,
                             [type |-> "retrieval_start", queryId |-> currentQueryId'])
              /\ ev' = Step
  /\ UNCHANGED <<storeVars, bm25Index, hybridIndex, measurements>>
  /\ QueryFrame

\* the lexical index a retriever scores against: its private field if set,
\* else the loaded snapshot, else one built from the chunks passed in
RetrieverIndex(cached, chunks) ==
  IF cached # NoIndex THEN cached
  ELSE IF loadLexicalIndex(lexicalIndex) # NoIndex THEN loadLexicalIndex(lexicalIndex)
  ELSE buildLexicalIndex(chunks)

\* if (!this.index) { this.index = await loadLexicalIndex(); if (!this.index)
\* { this.index = buildLexicalIndex(chunks); await saveLexicalIndex(...) } }
QueryIndex ==
  /\ qry.pc = "index"
  /\ CASE qry.retriever = "bm25" ->
            /\ bm25Index' = RetrieverIndex(bm25Index, qry.chunks)
            /\ lexicalIndex' = IF bm25Index = NoIndex /\ lexicalIndex = NoIndex
                               THEN Serialize(bm25Index') ELSE lexicalIndex
            /\ qry' = [qry EXCEPT !.index = bm25Index', !.pc = "search"]
            /\ UNCHANGED hybridIndex
       [] qry.retriever = "hybrid" ->
            /\ hybridIndex' = RetrieverIndex(hybridIndex, qry.chunks)
            /\ lexicalIndex' = IF hybridIndex = NoIndex /\ lexicalIndex = NoIndex
                               THEN Serialize(hybridIndex') ELSE lexicalIndex
            /\ qry' = [qry EXCEPT !.index = hybridIndex', !.pc = "search"]
            /\ UNCHANGED bm25Index
  /\ ev' = Step
  /\ UNCHANGED <<docs, chunksStore, vectors, fileBlobs, logVars, hist>>
  /\ QueryFrame

\* buildVectorIndex, bm25Search / semanticSearch, the sort and the slice
QuerySearch ==
  /\ qry.pc = "search"
  /\ LET query == qry.query
         topK  == RetrievalTopK(query, config)
         lexical == qry.retriever = "bm25"
         vecs  == IF lexical THEN vectors ELSE VectorsAfterBuild(qry.chunks)
     IN  /\ vectors' = vecs
         /\ IF ~lexical /\ semanticSearchThrows(query.text, qry.chunks, vecs)
            THEN QueryThrow("retrieval", qry)
            ELSE /\ qry' = [qry EXCEPT
                       !.pc = "citations",
                       !.retrieved =
                          CASE qry.retriever = "bm25" ->
                                 bm25Search(query.text, qry.index, qry.chunks, topK)
                            [] qry.retriever = "semantic" ->
                                 semanticSearch(query.text, qry.chunks, vecs, topK)
                            [] OTHER ->
                                 hybridSearch(query.text, qry.index, qry.chunks, vecs,
                                              topK, RetrievalAlpha(query))]
                 /\ ev' = Step
                 /\ UNCHANGED logVars
  /\ UNCHANGED <<docs, chunksStore, fileBlobs, lexicalIndex, bm25Index, hybridIndex, hist>>
  /\ QueryFrame

\* for each retrieved chunk: const doc = await getDoc(chunk.docId); if (doc) push
Citations(retrieved) ==
  LET kept == SelectSeq(retrieved, LAMBDA r : r.chunk.docId \in DOMAIN docs)
  IN  [i \in DOMAIN kept |->
         [chunkId |-> kept[i].chunk.id, docId |-> kept[i].chunk.docId,
          docName |-> docs[kept[i].chunk.docId].name, score |-> kept[i].score]]

\* citations, logRetrievalComplete; search mode or no citation: return
QueryCitations ==
  /\ qry.pc = "citations"
  /\ LET record == [qry EXCEPT !.citations = Citations(qry.retrieved)]
         logged == Append(events, Event("retrieval_complete"))
     IN  IF record.query.chatMode = "chat" /\ Len(record.citations) > 0
         THEN IF config.generation \notin GenerationRegistry
              THEN \* logGenerationStart(); throw new Error('Generation strategy
                   \* not found'); the catch logs the error
                   /\ qry' = IdleOp
                   /\ events' = Append(Append(logged, Event("generation_start")),
                                       Event("error"))
                   /\ ev' = QueryEnd("queryThrow", "resolveGeneration", record)
                   /\ UNCHANGED <<currentQueryId, measurements>>
              ELSE /\ qry' = [record EXCEPT !.pc = "generate"]
                   /\ events' = Append(logged, Event("generation_start"))
                   /\ ev' = Step
                   /\ UNCHANGED <<currentQueryId, measurements>>
         ELSE QueryReturn(record, logged)
  /\ UNCHANGED <<storeVars, bm25Index, hybridIndex, hist>>
  /\ QueryFrame

\* generationStrategy.generate(query.text, retrievalResult.chunks.slice(0, 5))
GenerationOutcomes == {"answer", "throws"}
Answer(retrieved) ==
  <<"answer", [i \in DOMAIN Take(retrieved, 5) |-> retrieved[i].chunk.id]>>

QueryGenerate(outcome) ==
  /\ qry.pc = "generate"
  /\ IF outcome = "throws"
     THEN QueryThrow("generation", [qry EXCEPT !.gen = outcome])
     ELSE LET record == [qry EXCEPT !.gen = outcome,
                                    !.answer = Answer(qry.retrieved),
                                    !.generatedAnswer = Answer(qry.retrieved)]
              logged == Append(events, Event("generation_complete"))
          IN  \* if (ppConfig.config.enabled) { const ppStrategy =
              \* PostProcessRegistry.get(ppConfig.strategyId); if (ppStrategy) ...
              IF config.polishEnabled /\ config.postProcess \in PostProcessRegistry
              THEN /\ qry' = [record EXCEPT !.pc = "postProcess"]
                   /\ events' = Append(logged, Event("polish_start"))
                   /\ ev' = Step
                   /\ UNCHANGED <<currentQueryId, measurements>>
              ELSE QueryReturn(record, logged)
  /\ UNCHANGED <<storeVars, bm25Index, hybridIndex, hist>>
  /\ QueryFrame

\* generatedAnswer = await ppStrategy.process(generatedAnswer, ...):
\* "polished" - the strategy returns a rewritten answer;
\* "caught"   - the polishing model fails: polishAnswer and AnswerPolisher
\*              catch the error and return the answer they were given;
\* "throws"   - the promise of process rejects
PostProcessOutcomes == {"polished", "caught", "throws"}

QueryPostProcess(outcome) ==
  /\ qry.pc = "postProcess"
  /\ IF outcome = "throws"
     THEN QueryThrow("polish", [qry EXCEPT !.pp = outcome])
     ELSE QueryReturn([qry EXCEPT !.pp = outcome,
                                  !.generatedAnswer =
                          IF outcome = "polished" THEN <<"polished", qry.answer>>
                          ELSE qry.answer],
                      Append(events, Event("polish_complete")))
  /\ UNCHANGED <<storeVars, bm25Index, hybridIndex, hist>>
  /\ QueryFrame

\* an awaited request of the query rejects: a store request, or the
\* embedder that generateEmbedding loads
QueryFail ==
  /\ qry.pc # "idle"
  /\ hist.failures < MaxFailures
  /\ QueryThrow("store", qry)
  /\ hist' = [hist EXCEPT !.failures = @ + 1]
  /\ UNCHANGED <<storeVars, bm25Index, hybridIndex>>
  /\ QueryFrame

(***************************************************************************)
(* Spec: the write paths (ingest, delete with its index rebuild), their    *)
(* failures, and search-mode queries in every retrieval mode, under the    *)
(* default configuration.                                                  *)
(***************************************************************************)
Init ==
  /\ ChunkIdle
  /\ PipeIdle
  /\ AuxIdle

SearchQueries == {q \in Queries : q.chatMode = "search" /\ q.topK = Undefined}

IngestSteps ==
  \/ IngestSaveDoc
  \/ IngestSaveFileBlob
  \/ IngestSaveChunk
  \/ IngestEmbed
  \/ IngestSaveVector
  \/ IngestSaveDocVector
  \/ IngestGetAllChunks
  \/ IngestSaveLexicalIndex
  \/ IngestSaveDocLexical

DeleteSteps ==
  \/ DeleteRemoveDoc
  \/ DeleteFileBlob
  \/ DeleteGetChunks
  \/ DeleteRemoveChunk
  \/ DeleteRemoveVector
  \/ DeleteRebuildGetAllChunks
  \/ DeleteRebuildSave

Next ==
  \/ \E file \in Files, d \in DocIds : IngestStart(file, d)
  \/ IngestSteps
  \/ IngestFail
  \/ \E d \in DocIds : DeleteStart(d)
  \/ DeleteSteps
  \/ DeleteFail
  \/ \E query \in SearchQueries : QueryStart(query)
  \/ QueryIndex
  \/ QuerySearch
  \/ QueryCitations
  \/ QueryFail

Spec == Init /\ [][Next]_vars

(***************************************************************************)
(* SpecQuery: the stages of a query (retrieval, generation, post-          *)
(* processing) in both chat modes and under every configuration, over a    *)
(* library built by ingests.                                               *)
(***************************************************************************)
\* the pipeline is constructed with the configuration saved earlier
InitQuery ==
  /\ ChunkIdle
  /\ AuxIdle
  /\ docs = EmptyMap /\ chunksStore = EmptyMap /\ vectors = EmptyMap
  /\ fileBlobs = {} /\ lexicalIndex = NoIndex
  /\ config \in Configs
  /\ bm25Index = NoIndex /\ hybridIndex = NoIndex
  /\ ing = IdleOp /\ del = IdleOp /\ qry = IdleOp
  /\ events = <<>> /\ currentQueryId = Null /\ measurements = 0
  /\ ev = NoEvent
  /\ hist = [usedIds |-> {}, deleted |-> {}, lastWrite |-> "none", ops |-> 0,
             failures |-> 0]

QueryFiles == {f \in Files : Len(f.texts) > 0}
\* the smallest id not handed out yet
NextDocId == IF hist.usedIds = {} THEN 1 ELSE SetMax(hist.usedIds) + 1

ChatQueries == {q \in Queries : tokenize(q.text) # <<>>}

NextQuery ==
  \/ \E file \in QueryFiles : IngestStart(file, NextDocId)
  \/ IngestSteps
  \/ \E c \in Configs : SetConfig(c)
  \/ \E query \in ChatQueries : QueryStart(query)
  \/ QueryIndex
  \/ QuerySearch
  \/ QueryCitations
  \/ \E outcome \in GenerationOutcomes : QueryGenerate(outcome)
  \/ \E outcome \in PostProcessOutcomes : QueryPostProcess(outcome)

SpecQuery == InitQuery /\ [][NextQuery]_vars

(***************************************************************************)
(* SpecUpload: the writers of the document rows.  Pipeline ingests, uploads *)
(* through the Sources panel and deletes, one at a time, with failures.    *)
(***************************************************************************)
UploadSteps ==
  \/ UploadSaveDoc
  \/ UploadSaveChunk
  \/ UploadBuildVectorIndex
  \/ UploadSaveDocVector
  \/ UploadRebuildLexicalIndex
  \/ UploadMarkDoc
  \/ UploadReturn

NextUpload ==
  \/ \E file \in Files, d \in DocIds : IngestStart(file, d)
  \/ IngestSteps
  \/ IngestFail
  \/ \E files \in UploadLists : UploadStart(files)
  \/ \E d \in DocIds : UploadNextFile(d)
  \/ UploadSteps
  \/ UploadFail
  \/ \E d \in DocIds : DeleteStart(d)
  \/ DeleteSteps
  \/ DeleteFail

SpecUpload == Init /\ [][NextUpload]_vars

(***************************************************************************)
(* Properties of the write paths and of retrieval (checked under Spec).    *)
(***************************************************************************)
QueryEnded == ev.type \in {"queryReturn", "queryThrow"}
ChunkIdSet(index) == IF index = NoIndex THEN {} ELSE Range(index.chunkIds)

\* C1: after a write path (an ingest, or a delete with its index rebuild)
\* has completed, a lexical or hybrid query that returns has scored against
\* a lexical index whose chunk-id set is the persisted chunk set: a
\* retriever's cached index from an earlier query is not used.
C1_IndexFollowsWrites ==
  (/\ ev.type = "queryReturn"
   /\ ev.query.mode \in {"bm25", "hybrid"}
   /\ hist.lastWrite = "completed")
  => ChunkIdSet(ev.index) = DOMAIN chunksStore

\* C2: with ingests and deletes run one at a time, when an ingest returns
\* successfully the persisted lexical snapshot lists exactly the chunk ids
\* persisted in the store, those of every document.
C2_SnapshotIsCorpus ==
  ev.type = "ingestReturn"
  => /\ lexicalIndex # NoIndex
     /\ ChunkIdSet(loadLexicalIndex(lexicalIndex)) = DOMAIN chunksStore
     /\ DOMAIN loadLexicalIndex(lexicalIndex).termFreq = DOMAIN chunksStore

\* an ingest returned while chunks of another document were persisted
C2_Witness ==
  /\ ev.type = "ingestReturn"
  /\ \E c \in DOMAIN chunksStore : c[1] = ev.doc
  /\ \E c \in DOMAIN chunksStore : c[1] # ev.doc

Restrict(f, S) == [x \in S |-> f[x]]

\* C3: when deleteDoc(D) completes the store holds no doc row for D, no
\* chunk with docId D, no vector keyed by a chunk id of D and no blob for D,
\* and the rows of every other document are as they were when it started.
C3_DeleteDocRemovesAll ==
  ev.type = "deleteDocReturn"
  => LET D == ev.id
         pre == ev.pre
     IN  /\ D \notin DOMAIN docs
         /\ \A c \in DOMAIN chunksStore : chunksStore[c].docId # D
         /\ \A c \in DOMAIN vectors : c[1] # D
         /\ D \notin fileBlobs
         /\ docs = Restrict(pre.docs, DOMAIN pre.docs \ {D})
         /\ chunksStore = Restrict(pre.chunks,
                            {c \in DOMAIN pre.chunks : pre.chunks[c].docId # D})
         /\ vectors = Restrict(pre.vectors, {c \in DOMAIN pre.vectors : c[1] # D})
         /\ fileBlobs = pre.blobs \ {D}

\* deleteDoc completed for a document that had a blob, chunks and vectors
\* while another document's chunks and vectors stay
C3_Witness ==
  /\ ev.type = "deleteDocReturn"
  /\ ev.id \in ev.pre.blobs
  /\ \E c \in DOMAIN ev.pre.chunks : c[1] = ev.id /\ c \in DOMAIN ev.pre.vectors
  /\ \E c \in DOMAIN chunksStore : c \in DOMAIN vectors

\* C4: after a document has been deleted (handleDeleteDoc completed), no
\* query that returns, in any mode, cites a chunk of it, whatever lexical
\* index the retriever holds.
C4_NoCitationOfDeleted ==
  ev.type = "queryReturn"
  => \A i \in DOMAIN ev.citations : ev.citations[i].docId \notin hist.deleted

\* a query scored against an index loaded before the delete (it still lists
\* chunks of the deleted document) and cited the remaining document
C4_Witness ==
  /\ ev.type = "queryReturn"
  /\ \E c \in ChunkIdSet(ev.index) : c[1] \in hist.deleted
  /\ ev.citations # <<>>

(***************************************************************************)
(* Properties of the query stages (checked under SpecQuery).               *)
(***************************************************************************)
HasError == \E i \in DOMAIN events : events[i].type = "error"
ErrorThenComplete ==
  \E i, j \in DOMAIN events :
     i < j /\ events[i].type = "error" /\ events[j].type = "query_complete"

\* C5: a chat query whose enabled post-processor fails still returns, its
\* generatedAnswer is the answer of the generation stage, and its events
\* hold an error entry followed by query_complete.
C5_PolishFallback ==
  (QueryEnded /\ ev.pp \in {"caught", "throws"})
  => /\ ev.type = "queryReturn"
     /\ ev.generatedAnswer = ev.answer
     /\ ErrorThenComplete

\* C6: a chat query with citations whose generation strategy throws still
\* returns its citations, with generatedAnswer absent, and an error entry
\* is in the event log.
C6_GenerationFallback ==
  (QueryEnded /\ ev.gen = "throws")
  => /\ ev.type = "queryReturn"
     /\ ev.citations # <<>>
     /\ ev.generatedAnswer = Undefined
     /\ HasError

\* the stored vectors of persisted chunks whose dimension is not the query
\* vector's
Mismatched(query) ==
  {c \in DOMAIN chunksStore \cap DOMAIN vectors :
     ~SameDimension(generateEmbedding(query.text), vectors[c])}

\* C7: a semantic or hybrid query over a store in which exactly one chunk
\* vector has another dimension than the query vector returns; the chunk of
\* that vector is not in the result and, up to topK, every other chunk is.
C7_MismatchSkipped ==
  (/\ QueryEnded
   /\ ev.query.mode \in {"semantic", "hybrid"}
   /\ Cardinality(Mismatched(ev.query)) = 1)
  => /\ ev.type = "queryReturn"
     /\ LET got == {ev.retrieved[i].chunk.id : i \in DOMAIN ev.retrieved}
            others == DOMAIN chunksStore \ Mismatched(ev.query)
        IN  /\ got \subseteq others
            /\ Cardinality(got) = Min(Cardinality(others), RetrievalTopK(ev.query, config))

(***************************************************************************)
(* SpecRank: the lexical, semantic and hybrid retrievers applied to the    *)
(* same query, lexical index and chunk list.                               *)
(***************************************************************************)
MaxRankChunks == 3     \* chunks the index was built from

RankTexts == {<<"the", "fox">>, <<"dog", "fox", "fox">>, <<"dog">>}
\* chunk ids in key order: doc 1 chunk 0, doc 1 chunk 1, doc 2 chunk 0, ...
RankId(i) == <<(i + 1) \div 2, (i + 1) % 2>>
RankChunk(i, text) == [id |-> RankId(i), docId |-> RankId(i)[1], text |-> text]

RankQueryTexts == QueryTexts \cup {<<"cat">>}
RankTopKs  == {1, 2, 10}
RankAlphas == {Zero, <<1, 2>>, One}

\* indexed: the chunks getAllChunks() gave when the index was built;
\* present: the ids of those still persisted when the query runs
RankChunkLists ==
  UNION {{[i \in 1..m |-> RankChunk(i, texts[i])] : texts \in [1..m -> RankTexts]} :
           m \in 0..MaxRankChunks}
RankInputs ==
  UNION {{[indexed |-> chunks, present |-> present, query |-> q, topK |-> k,
           alpha |-> a] :
            present \in SUBSET ChunkIdsOf(chunks), q \in RankQueryTexts,
            k \in RankTopKs, a \in RankAlphas} :
           chunks \in RankChunkLists}

RankIndex  == buildLexicalIndex(rank.in.indexed)
RankChunks == SelectSeq(rank.in.indexed, LAMBDA c : c.id \in rank.in.present)
\* buildVectorIndex(chunks): the stored (or generated) MiniLM vector of each chunk
RankVectors == [c \in ChunkIdsOf(RankChunks) |->
                  generateEmbedding(ChunkById(RankChunks, c).text)]

InitRank ==
  /\ ChunkIdle
  /\ PipeIdle
  /\ rank \in {[in |-> input, lexical |-> Undefined, semantic |-> Undefined,
                hybrid |-> Undefined] : input \in RankInputs}
  /\ up = IdleOp
  /\ logger = IdleOp
  /\ tracker = IdleOp
  /\ manager = IdleOp
  /\ ConcIdle

\* BM25Retriever.retrieve
BM25Retrieve ==
  /\ rank # IdleOp
  /\ rank.lexical = Undefined
  /\ rank' = [rank EXCEPT !.lexical =
                Some(bm25Search(rank.in.query, RankIndex, RankChunks, rank.in.topK))]
  /\ UNCHANGED <<chunkVars, pipeVars, up, logger, tracker, manager, concVars>>

\* SemanticRetriever.retrieve
SemanticRetrieve ==
  /\ rank # IdleOp
  /\ rank.semantic = Undefined
  /\ rank' = [rank EXCEPT !.semantic =
                Some(semanticSearch(rank.in.query, RankChunks, RankVectors, rank.in.topK))]
  /\ UNCHANGED <<chunkVars, pipeVars, up, logger, tracker, manager, concVars>>

\* HybridRetriever.retrieve
HybridRetrieve ==
  /\ rank # IdleOp
  /\ rank.hybrid = Undefined
  /\ rank' = [rank EXCEPT !.hybrid =
                Some(hybridSearch(rank.in.query, RankIndex, RankChunks, RankVectors,
                                  rank.in.topK, rank.in.alpha))]
  /\ UNCHANGED <<chunkVars, pipeVars, up, logger, tracker, manager, concVars>>

NextRank ==
  \/ BM25Retrieve
  \/ SemanticRetrieve
  \/ HybridRetrieve

SpecRank == InitRank /\ [][NextRank]_vars

(***************************************************************************)
(* Properties of the retrievers (checked under SpecRank).                  *)
(***************************************************************************)
ResultIds(results) == [i \in DOMAIN results |-> results[i].chunk.id]
\* position of chunk id c in a sequence of ids
PosIn(ids, c) == CHOOSE i \in DOMAIN ids : ids[i] = c /\ \A j \in 1..(i - 1) : ids[j] # c

RankScore(c) == computeBM25Score(tokenize(rank.in.query), c, RankIndex)
\* the present chunks with a BM25 score above zero
RankPositive == {c \in ChunkIdsOf(RankChunks) : RLess(Zero, RankScore(c))}
\* a ranks before b: higher score, or equal score and earlier in the snapshot
LexicalBefore(a, b) ==
  \/ RLess(RankScore(b), RankScore(a))
  \/ /\ REq(RankScore(a), RankScore(b))
     /\ PosIn(RankIndex.chunkIds, a) < PosIn(RankIndex.chunkIds, b)

\* C11: lexical search returns the first topK of the chunks with score > 0,
\* ordered by score descending, equal scores in snapshot (index.chunkIds)
\* order; an empty index or a query with no indexed term gives the empty list.
C11_LexicalSearch ==
  (rank # IdleOp /\ rank.lexical # Undefined)
  => LET results == rank.lexical[1]
         ids == ResultIds(results)
     IN  /\ Len(results) = Min(rank.in.topK, Cardinality(RankPositive))
         /\ \A i \in DOMAIN results :
              /\ ids[i] \in RankPositive
              /\ results[i].chunk = ChunkById(RankChunks, ids[i])
              /\ results[i].score = RankScore(ids[i])
         /\ \A i, j \in DOMAIN results : i < j => LexicalBefore(ids[i], ids[j])
         /\ \A c \in RankPositive \ Range(ids) :
              \A i \in DOMAIN results : LexicalBefore(ids[i], c)
         /\ (\/ RankIndex.chunkIds = <<>>
             \/ \A t \in Range(tokenize(rank.in.query)) : t \notin DOMAIN RankIndex.docFreq)
            => results = <<>>

\* two chunks of equal score returned in snapshot order, a third one with a
\* score above zero cut off by topK
C11_Witness ==
  /\ rank # IdleOp /\ rank.lexical # Undefined
  /\ Len(rank.lexical[1]) = 2
  /\ REq(rank.lexical[1][1].score, rank.lexical[1][2].score)
  /\ Cardinality(RankPositive) = 3

RankDone ==
  /\ rank # IdleOp
  /\ rank.lexical # Undefined /\ rank.semantic # Undefined /\ rank.hybrid # Undefined

\* C12: for the same query, chunks and topK the hybrid retriever with
\* alpha = 0 returns the ranked chunk list of the lexical retriever, and
\* with alpha = 1 the ranked chunk list of the semantic retriever.
C12_HybridBoundary ==
  RankDone
  => /\ rank.in.alpha = Zero
          => ResultIds(rank.hybrid[1]) = ResultIds(rank.lexical[1])
     /\ rank.in.alpha = One
          => ResultIds(rank.hybrid[1]) = ResultIds(rank.semantic[1])

\* the lexical-normalized, semantic-normalized and fused score of a chunk in
\* HybridRetriever.retrieve (lexicalMap.get(id) || 0, semanticMap.get(id) || 0)
HybridLexical(c) ==
  LET lexicalResults == bm25Search(rank.in.query, RankIndex, RankChunks, Len(RankChunks))
      lexicalMap == IF lexicalResults = <<>> THEN EmptyMap
                    ELSE normalizeScores(lexicalResults)
  IN  IF c \in DOMAIN lexicalMap THEN lexicalMap[c] ELSE Zero
HybridSemantic(c) ==
  LET semanticResults == semanticSearch(rank.in.query, RankChunks, RankVectors,
                                        Len(RankChunks))
      semanticMap == IF semanticResults = <<>> THEN EmptyMap
                     ELSE normalizeScores(semanticResults)
  IN  IF c \in DOMAIN semanticMap THEN semanticMap[c] ELSE Zero
HybridFused(c) ==
  RAdd(RMul(rank.in.alpha, HybridSemantic(c)),
       RMul(RSub(One, rank.in.alpha), HybridLexical(c)))

\* a ranks before b: higher fused score, then higher lexical-normalized
\* score, then smaller chunk id
HybridBefore(a, b) ==
  \/ RLess(HybridFused(b), HybridFused(a))
  \/ /\ REq(HybridFused(a), HybridFused(b))
     /\ \/ RLess(HybridLexical(b), HybridLexical(a))
        \/ /\ REq(HybridLexical(a), HybridLexical(b))
           /\ KeyLess(a, b)

\* C13: hybrid results are in fused-score descending order, equal fused
\* scores by higher lexical-normalized score first and then by chunk id, and
\* topK cuts this order.
C13_HybridOrder ==
  (rank # IdleOp /\ rank.hybrid # Undefined)
  => LET results == rank.hybrid[1]
         ids == ResultIds(results)
     IN  /\ Len(results) = Min(rank.in.topK, Len(RankChunks))
         /\ \A i \in DOMAIN results : REq(results[i].score, HybridFused(ids[i]))
         /\ \A i, j \in DOMAIN results : i < j => HybridBefore(ids[i], ids[j])
         /\ \A c \in ChunkIdsOf(RankChunks) \ Range(ids) :
              \A i \in DOMAIN results : HybridBefore(ids[i], c)

(***************************************************************************)
(* Further properties of the store (checked under Spec).                   *)
(***************************************************************************)
\* C14: in every state of the store, also between the writes of an ingest
\* or a delete and after one that failed part-way, every persisted chunk's
\* docId is the id of a persisted document.
C14_ChunkHasDoc ==
  \A c \in DOMAIN chunksStore : chunksStore[c].docId \in DOMAIN docs

(***************************************************************************)
(* The status flags of the document rows (checked under SpecUpload).       *)
(***************************************************************************)
FlagsKept(before, after) ==
  /\ before.parsed => after.parsed
  /\ before.indexedVector => after.indexedVector
  /\ before.indexedLexical => after.indexedLexical

\* C15: while a document row exists none of its flags parsed, indexedVector,
\* indexedLexical goes from true back to false, and no persisted row has
\* indexedLexical true while indexedVector is false.
C15_StatusMonotone ==
  [][/\ \A d \in DOMAIN docs \cap DOMAIN docs' :
          FlagsKept(docs[d].status, docs'[d].status)
     /\ \A d \in DOMAIN docs' :
          docs'[d].status.indexedLexical => docs'[d].status.indexedVector]_vars

(***************************************************************************)
(* SpecLog: a DebugLogger driven by its logging calls and clear().  An     *)
(* event is identified by the number of clears before it and its ordinal   *)
(* among the events appended since; logger.appended lists the events       *)
(* appended since the last clear.                                          *)
(***************************************************************************)
MaxLogEvents == 500
MaxLogged == 502
MaxClears == 1

\* Array.prototype.slice(-n)
SliceLast(q, n) == IF Len(q) <= n THEN q ELSE SubSeq(q, Len(q) - n + 1, Len(q))

\* DebugLogger.addEvent with the oldest events kept
addEventKeepFirst(evs, event) ==
  LET pushed == Append(evs, event)
  IN  IF Len(pushed) > MaxLogEvents THEN SubSeq(pushed, 1, MaxLogEvents) ELSE pushed

\* DebugLogger.addEvent: push, then keep the last 500
addEvent(evs, event) ==
  LET pushed == Append(evs, event)
  IN  IF Len(pushed) > MaxLogEvents THEN SliceLast(pushed, MaxLogEvents) ELSE pushed

InitLog ==
  /\ ChunkIdle
  /\ PipeIdle
  /\ rank = IdleOp /\ up = IdleOp /\ tracker = IdleOp /\ manager = IdleOp
  /\ ConcIdle
  /\ logger = [events |-> <<>>, currentQueryId |-> Null, appended |-> <<>>, clears |-> 0]

LogFrame == UNCHANGED <<chunkVars, pipeVars, rank, up, tracker, manager, concVars>>

\* the event a logging call builds; addEvent does not look into it
NewEvent == [id |-> <<logger.clears, Len(logger.appended) + 1>>]

\* the logger after a call that appends an event and sets currentQueryId
Logged(queryId) ==
  [logger EXCEPT !.events = addEvent(@, NewEvent),
                 !.appended = Append(@, NewEvent),
                 !.currentQueryId = queryId]

\* startQuery(query, mode, chatMode)
LoggerStartQuery ==
  /\ Len(logger.appended) < MaxLogged
  /\ logger' = Logged("query")
  /\ LogFrame

\* logRetrievalStart ... logPolishComplete: if (!this.currentQueryId) return
LoggerLogStage ==
  /\ Len(logger.appended) < MaxLogged
  /\ logger.currentQueryId # Null
  /\ logger' = Logged(logger.currentQueryId)
  /\ LogFrame

\* logQueryComplete(totalDuration)
LoggerQueryComplete ==
  /\ Len(logger.appended) < MaxLogged
  /\ logger.currentQueryId # Null
  /\ logger' = Logged(Null)
  /\ LogFrame

\* logError(error, context)
LoggerLogError ==
  /\ Len(logger.appended) < MaxLogged
  /\ logger' = Logged(logger.currentQueryId)
  /\ LogFrame

\* clear()
LoggerClear ==
  /\ logger.clears < MaxClears
  /\ logger' = [logger EXCEPT !.events = <<>>, !.currentQueryId = Null,
                              !.appended = <<>>, !.clears = @ + 1]
  /\ LogFrame

NextLog ==
  \/ LoggerStartQuery
  \/ LoggerLogStage
  \/ LoggerQueryComplete
  \/ LoggerLogError
  \/ LoggerClear

SpecLog == InitLog /\ [][NextLog]_vars

\* C16: the buffer holds at most 500 events, and they are the most recently
\* appended events since the last clear, in append order.
C16_LastEvents ==
  logger # IdleOp
  => /\ Len(logger.events) <= 500
     /\ LET n == Len(logger.appended)
            kept == IF n < 500 THEN n ELSE 500
        IN  /\ Len(logger.events) = kept
            /\ \A i \in 1..kept : logger.events[i] = logger.appended[n - kept + i]

\* the 501st event since a clear was appended and the first one is gone
C16_Witness ==
  /\ logger # IdleOp
  /\ logger.clears = 1
  /\ Len(logger.appended) = 501
  /\ logger.events[1] = logger.appended[2]
  /\ logger.events[500] = logger.appended[501]

(***************************************************************************)
(* SpecLatency: a LatencyTracker built with the default maxSize, driven by *)
(* record, clear and getLatencyStats.  tracker.recorded lists the          *)
(* durations recorded since construction or the last clear; the recorded   *)
(* durations change value at most MaxRuns - 1 times.                       *)
(***************************************************************************)
MaxRecorded == 102
MaxRuns == 2
Durations == {10, 30}

\* LatencyTracker.record with the newest measurement dropped
recordPop(measured, latencyMs) ==
  LET pushed == Append(measured, latencyMs)
  IN  IF Len(pushed) > LatencyMaxSize THEN SubSeq(pushed, 1, Len(pushed) - 1) ELSE pushed

\* LatencyTracker.record: push, then shift() when over maxSize
record(measured, latencyMs) ==
  LET pushed == Append(measured, latencyMs)
  IN  IF Len(pushed) > LatencyMaxSize THEN Tail(pushed) ELSE pushed

\* [...measurements].sort((a, b) => a - b)
RECURSIVE SortAscending(_)
SortAscending(q) ==
  IF q = <<>> THEN <<>>
  ELSE LET rest == SortAscending(Tail(q))
           below == Cardinality({i \in DOMAIN rest : rest[i] <= Head(q)})
       IN  SubSeq(rest, 1, below) \o <<Head(q)>> \o SubSeq(rest, below + 1, Len(rest))

\* Math.ceil((p / 100) * n)
CeilPercent(p, n) == (p * n + 99) \div 100

\* LatencyTracker.percentile
percentile(measured, p) ==
  IF Len(measured) = 0 THEN 0
  ELSE LET sorted == SortAscending(measured)
           index == CeilPercent(p, Len(sorted)) - 1
       IN  sorted[Max(0, index) + 1]

\* LatencyTracker.getMean, as a fraction
getMean(measured) ==
  IF Len(measured) = 0 THEN Zero ELSE Reduce(<<SumSeq(measured), Len(measured)>>)

\* getLatencyStats()
getLatencyStats(measured) ==
  [p50 |-> percentile(measured, 50),
   p95 |-> percentile(measured, 95),
   p99 |-> percentile(measured, 99),
   mean |-> getMean(measured),
   count |-> Len(measured)]

InitLatency ==
  /\ ChunkIdle
  /\ PipeIdle
  /\ rank = IdleOp /\ up = IdleOp /\ logger = IdleOp /\ manager = IdleOp
  /\ ConcIdle
  /\ tracker = [measurements |-> <<>>, recorded |-> <<>>, runs |-> 0, stats |-> Undefined]

LatencyFrame == UNCHANGED <<chunkVars, pipeVars, rank, up, logger, manager, concVars>>

\* queryLatencyTracker.record(latencyMs)
TrackerRecord(latencyMs) ==
  LET sameRun == tracker.recorded # <<>>
                 /\ tracker.recorded[Len(tracker.recorded)] = latencyMs
  IN  /\ Len(tracker.recorded) < MaxRecorded
      /\ sameRun \/ tracker.runs < MaxRuns
      /\ tracker' = [tracker EXCEPT
                       !.measurements = record(@, latencyMs),
                       !.recorded = Append(@, latencyMs),
                       !.runs = IF sameRun THEN @ ELSE @ + 1,
                       !.stats = Undefined]
      /\ LatencyFrame

\* queryLatencyTracker.clear()
TrackerClear ==
  /\ tracker.recorded # <<>>
  /\ tracker' = [measurements |-> <<>>, recorded |-> <<>>, runs |-> 0, stats |-> Undefined]
  /\ LatencyFrame

\* getLatencyStats()
TrackerGetStats ==
  /\ tracker.stats = Undefined
  /\ tracker' = [tracker EXCEPT !.stats = Some(getLatencyStats(tracker.measurements))]
  /\ LatencyFrame

NextLatency ==
  \/ \E latencyMs \in Durations : TrackerRecord(latencyMs)
  \/ TrackerClear
  \/ TrackerGetStats

SpecLatency == InitLatency /\ [][NextLatency]_vars

\* the last min(n, 100) of the recorded durations
RecentWindow ==
  LET n == Len(tracker.recorded)
      kept == IF n < 100 THEN n ELSE 100
  IN  [i \in 1..kept |-> tracker.recorded[n - kept + i]]

\* v is the p-th percentile (nearest rank) of the samples
IsPercentile(v, p, samples) ==
  IF samples = <<>> THEN v = 0
  ELSE LET need == CeilPercent(p, Len(samples))
       IN  /\ v \in Range(samples)
           /\ Cardinality({i \in DOMAIN samples : samples[i] < v}) < need
           /\ Cardinality({i \in DOMAIN samples : samples[i] <= v}) >= need

\* C17: the tracker holds the last min(n, 100) recorded durations in
\* recording order, its count is at most 100, and the percentiles and the
\* mean it reports are those of these samples.
C17_RecentSamples ==
  tracker # IdleOp
  => /\ tracker.measurements = RecentWindow
     /\ Len(tracker.measurements) <= 100
     /\ tracker.stats # Undefined
          => LET stats == tracker.stats[1]
             IN  /\ stats.count = Len(RecentWindow)
                 /\ IsPercentile(stats.p50, 50, RecentWindow)
                 /\ IsPercentile(stats.p95, 95, RecentWindow)
                 /\ IsPercentile(stats.p99, 99, RecentWindow)
                 /\ stats.mean[1] * Len(RecentWindow) = stats.mean[2] * SumSeq(RecentWindow)

\* 101 durations recorded, the first one evicted, and the mean reported
\* without it
C17_Witness ==
  /\ tracker # IdleOp
  /\ Len(tracker.recorded) = 101
  /\ tracker.recorded[1] = 30
  /\ tracker.recorded[101] = 10
  /\ tracker.stats # Undefined
  /\ tracker.stats[1].mean = <<10, 1>>
  /\ tracker.stats[1].count = 100

(***************************************************************************)
(* SpecConfig: ConfigManager over localStorage.  A configuration is a JSON *)
(* value (a tree of objects, arrays, strings, numbers and booleans); a     *)
(* JSON text is the sequence of its tokens, whitespace included.           *)
(***************************************************************************)
CURRENT_VERSION == 4

(* ---- JSON values ---- *)
Str(s)     == [k |-> "str", v |-> s, items |-> <<>>]
Num(lit)   == [k |-> "num", v |-> lit, items |-> <<>>]
Bool(lit)  == [k |-> "bool", v |-> lit, items |-> <<>>]
JNull      == [k |-> "null", v |-> "null", items |-> <<>>]
Field(key, value) == [key |-> key, value |-> value]
Obj(fields) == [k |-> "obj", v |-> "", items |-> fields]
Arr(values) == [k |-> "arr", v |-> "",
                items |-> [i \in DOMAIN values |-> Field("", values[i])]]

\* object[key]: the value of the last field named key, if any
HasKey(object, key) == \E i \in DOMAIN object.items : object.items[i].key = key
Get(object, key) ==
  LET at == {i \in DOMAIN object.items : object.items[i].key = key}
  IN  object.items[CHOOSE i \in at : \A j \in at : j <= i].value

\* object[key] = value: an own key keeps its place, a new one goes last
SetKey(object, key, value) ==
  IF HasKey(object, key)
  THEN [object EXCEPT !.items = [i \in DOMAIN @ |->
                                   IF @[i].key = key THEN Field(key, value) ELSE @[i]]]
  ELSE [object EXCEPT !.items = Append(@, Field(key, value))]

\* ToBoolean of a JSON value
Truthy(x) ==
  CASE x.k = "null" -> FALSE
    [] x.k = "bool" -> x.v = "true"
    [] x.k = "str"  -> x.v # ""
    [] x.k = "num"  -> x.v # "0"
    [] OTHER        -> TRUE

(* ---- JSON.stringify(value) and JSON.stringify(value, null, 2) ---- *)
Tok(t, v) == [t |-> t, v |-> v]
Punct(c)  == Tok("punct", c)
Space(pretty, text) == IF pretty THEN <<Tok("ws", text)>> ELSE <<>>

RECURSIVE Stringify(_, _)
RECURSIVE StringifyItems(_, _, _, _)
StringifyItems(items, i, isObject, pretty) ==
  IF i > Len(items) THEN <<>>
  ELSE (IF i > 1 THEN <<Punct(",")>> ELSE <<>>)
       \o Space(pretty, "\n")
       \o (IF isObject
           THEN <<Tok("str", items[i].key), Punct(":")>> \o Space(pretty, " ")
           ELSE <<>>)
       \o Stringify(items[i].value, pretty)
       \o StringifyItems(items, i + 1, isObject, pretty)

Stringify(x, pretty) ==
  CASE x.k = "str"  -> <<Tok("str", x.v)>>
    [] x.k = "num"  -> <<Tok("num", x.v)>>
    [] x.k = "obj"  ->
         IF x.items = <<>> THEN <<Punct("{"), Punct("}")>>
         ELSE <<Punct("{")>> \o StringifyItems(x.items, 1, TRUE, pretty)
              \o Space(pretty, "\n") \o <<Punct("}")>>
    [] x.k = "arr"  ->
         IF x.items = <<>> THEN <<Punct("["), Punct("]")>>
         ELSE <<Punct("[")>> \o StringifyItems(x.items, 1, FALSE, pretty)
              \o Space(pretty, "\n") \o <<Punct("]")>>
    [] OTHER        -> <<Tok("lit", x.v)>>

(* ---- JSON.parse(text); ok = FALSE stands for the SyntaxError ---- *)
Parsed(value, next) == [ok |-> TRUE, value |-> value, next |-> next]
ParseError == [ok |-> FALSE, value |-> JNull, next |-> 0]

TokAt(toks, i) == IF i \in DOMAIN toks THEN toks[i] ELSE Tok("eof", "")

RECURSIVE SkipSpace(_, _)
SkipSpace(toks, i) ==
  IF TokAt(toks, i).t = "ws" THEN SkipSpace(toks, i + 1) ELSE i

RECURSIVE ParseValue(_, _)
RECURSIVE ParseItems(_, _, _, _)
\* the members of an object or the elements of an array, from the first one
ParseItems(toks, from, isObject, acc) ==
  LET i == SkipSpace(toks, from)
      colon == SkipSpace(toks, i + 1)
      keyOk == ~isObject \/ (TokAt(toks, i).t = "str" /\ TokAt(toks, colon) = Punct(":"))
      item == ParseValue(toks, IF isObject THEN colon + 1 ELSE i)
      after == SkipSpace(toks, item.next)
      items == Append(acc, Field(IF isObject THEN toks[i].v ELSE "", item.value))
      close == IF isObject THEN Punct("}") ELSE Punct("]")
  IN  IF ~keyOk THEN ParseError
      ELSE IF ~item.ok THEN ParseError
      ELSE IF TokAt(toks, after) = Punct(",")
           THEN ParseItems(toks, after + 1, isObject, items)
      ELSE IF TokAt(toks, after) = close
           THEN Parsed([k |-> IF isObject THEN "obj" ELSE "arr", v |-> "",
                        items |-> items],
                       after + 1)
      ELSE ParseError

ParseValue(toks, from) ==
  LET i == SkipSpace(toks, from)
      tok == TokAt(toks, i)
      inner == SkipSpace(toks, i + 1)
  IN  CASE tok.t = "str" -> Parsed(Str(tok.v), i + 1)
        [] tok.t = "num" -> Parsed(Num(tok.v), i + 1)
        [] tok.t = "lit" ->
             Parsed(IF tok.v = "null" THEN JNull ELSE Bool(tok.v), i + 1)
        [] tok = Punct("{") ->
             IF TokAt(toks, inner) = Punct("}") THEN Parsed(Obj(<<>>), inner + 1)
             ELSE ParseItems(toks, inner, TRUE, <<>>)
        [] tok = Punct("[") ->
             IF TokAt(toks, inner) = Punct("]") THEN Parsed(Arr(<<>>), inner + 1)
             ELSE ParseItems(toks, inner, FALSE, <<>>)
        [] OTHER -> ParseError

JSONParse(toks) ==
  LET r == ParseValue(toks, 1)
  IN  IF r.ok /\ SkipSpace(toks, r.next) = Len(toks) + 1 THEN r ELSE ParseError

(* ---- the configurations the settings panel can hold ---- *)
Selection(strategyId, fields) ==
  Obj(<<Field("strategyId", Str(strategyId)), Field("config", Obj(fields))>>)

RAGConfig(chunking, retrieval, postProcess) ==
  Obj(<<Field("chunking", chunking),
        Field("embedding", Selection("minilm-l6-v2",
                                      <<Field("batchSize", Num("1")),
                                        Field("normalize", Bool("true"))>>)),
        Field("retrieval", retrieval),
        Field("generation", Selection("extractive-distilbert-qa",
                                       <<Field("maxTokens", Num("200"))>>)),
        Field("postProcess", Arr(postProcess))>>)

DefaultChunking == Selection("fixed-size", <<Field("chunkSize", Num("400")),
                                             Field("overlapPercent", Num("12"))>>)
DefaultRetrieval == Selection("semantic", <<Field("topK", Num("5"))>>)
Polish(enabled) == Selection("polish", <<Field("enabled", Bool(enabled))>>)

getDefaultConfig == RAGConfig(DefaultChunking, DefaultRetrieval, <<Polish("false")>>)

\* presets, strategy changes (config: {}) and field edits of the panel
RetrievalSelections ==
  {DefaultRetrieval,
   Selection("bm25", <<>>),
   Selection("hybrid", <<Field("topK", Num("10")), Field("alpha", Num("0.5"))>>),
   Selection("hybrid", <<Field("alpha", Num("0.7")), Field("topK", Num("15"))>>)}
PostProcessLists == {<<>>, <<Polish("false")>>, <<Polish("true")>>}
PanelConfigs ==
  {RAGConfig(DefaultChunking, r, pp) : r \in RetrievalSelections, pp \in PostProcessLists}

(* ---- ConfigManager ---- *)
NoItem == <<>>

\* ConfigManager.getConfig
getConfig(storage) ==
  IF storage.config # NoItem /\ storage.version = ToString(CURRENT_VERSION)
  THEN LET parsed == JSONParse(storage.config)
       IN  IF parsed.ok THEN parsed.value ELSE getDefaultConfig
  ELSE getDefaultConfig

\* ConfigManager.saveConfig
saveConfig(storage, cfg) ==
  [config |-> Stringify(cfg, FALSE), version |-> ToString(CURRENT_VERSION)]

\* ConfigManager.exportConfig
exportConfig(storage) == Stringify(getConfig(storage), TRUE)

\* importConfig's validation with an empty postProcess list refused
validConfigNonEmpty(cfg) ==
  /\ cfg.k # "null"
  /\ \A stage \in {"chunking", "embedding", "retrieval", "generation"} :
        HasKey(cfg, stage) /\ Truthy(Get(cfg, stage))
  /\ HasKey(cfg, "postProcess")
  /\ Get(cfg, "postProcess").k = "arr"
  /\ Get(cfg, "postProcess").items # <<>>

\* importConfig's validation; reading a property of null throws
validConfig(cfg) ==
  /\ cfg.k # "null"
  /\ \A stage \in {"chunking", "embedding", "retrieval", "generation"} :
        HasKey(cfg, stage) /\ Truthy(Get(cfg, stage))
  /\ HasKey(cfg, "postProcess")
  /\ Get(cfg, "postProcess").k = "arr"

\* ConfigManager.importConfig: what it returns, and the storage it leaves
importConfig(storage, jsonString) ==
  LET parsed == JSONParse(jsonString)
  IN  IF parsed.ok /\ validConfig(parsed.value)
      THEN [ok |-> TRUE, storage |-> saveConfig(storage, parsed.value)]
      ELSE [ok |-> FALSE, storage |-> storage]

\* files a user may pick that exportConfig did not write
ForeignTexts ==
  {<<Punct("{"), Tok("str", "chunking")>>,
   Stringify(JNull, TRUE),
   Stringify(Obj(<<Field("chunking", DefaultChunking)>>), TRUE),
   Stringify(SetKey(getDefaultConfig, "postProcess", Polish("true")), TRUE),
   Stringify(RAGConfig(Selection("fixed-size", <<Field("chunkSize", Num("500")),
                                                 Field("overlapPercent", Num("10"))>>),
                       Selection("bm25", <<Field("topK", Num("5"))>>), <<>>), FALSE)}

\* what localStorage may hold when the page loads
InitialStorages ==
  {[config |-> NoItem, version |-> "none"],
   [config |-> Stringify(RAGConfig(DefaultChunking, Selection("bm25", <<>>), <<>>), FALSE),
    version |-> "3"]}

InitConfig ==
  /\ ChunkIdle
  /\ PipeIdle
  /\ rank = IdleOp /\ up = IdleOp /\ logger = IdleOp /\ tracker = IdleOp
  /\ ConcIdle
  /\ manager \in {[storage |-> st, saved |-> Undefined, exported |-> NoItem,
                   exportedOf |-> Undefined, last |-> [call |-> "none", ok |-> TRUE]] :
                  st \in InitialStorages}

ConfigFrame == UNCHANGED <<chunkVars, pipeVars, rank, up, logger, tracker, concVars>>

Saved(cfg, call) ==
  [manager EXCEPT !.storage = saveConfig(@, cfg),
                  !.saved = Some(cfg),
                  !.last = [call |-> call, ok |-> TRUE]]

\* handleSave: ConfigManager.saveConfig(config)
ManagerSaveConfig(cfg) ==
  /\ manager' = Saved(cfg, "saveConfig")
  /\ ConfigFrame

\* ConfigManager.resetConfig
ManagerResetConfig ==
  /\ manager' = Saved(getDefaultConfig, "resetConfig")
  /\ ConfigFrame

\* ConfigManager.updateStage('retrieval', strategyId, config)
ManagerUpdateStage(selection) ==
  /\ manager' = Saved(SetKey(getConfig(manager.storage), "retrieval", selection),
                      "updateStage")
  /\ ConfigFrame

\* ConfigManager.updatePostProcess('polish', config)
ManagerUpdatePostProcess(enabled) ==
  LET currentConfig == getConfig(manager.storage)
      list == Get(currentConfig, "postProcess").items
      found == {i \in DOMAIN list : Get(list[i].value, "strategyId") = Str("polish")}
      updated == IF found # {}
                 THEN LET existingIndex == CHOOSE i \in found : \A j \in found : i <= j
                      IN  [list EXCEPT ![existingIndex] = Field("", Polish(enabled))]
                 ELSE Append(list, Field("", Polish(enabled)))
  IN  /\ manager' = Saved(SetKey(currentConfig, "postProcess",
                                 [k |-> "arr", v |-> "", items |-> updated]),
                          "updatePostProcess")
      /\ ConfigFrame

\* ConfigManager.removePostProcess('polish')
ManagerRemovePostProcess ==
  LET currentConfig == getConfig(manager.storage)
      list == Get(currentConfig, "postProcess").items
      filtered == SelectSeq(list,
                            LAMBDA p : Get(p.value, "strategyId") # Str("polish"))
  IN  /\ manager' = Saved(SetKey(currentConfig, "postProcess",
                                 [k |-> "arr", v |-> "", items |-> filtered]),
                          "removePostProcess")
      /\ ConfigFrame

\* handleExport: ConfigManager.exportConfig(), downloaded as rag-config.json
ManagerExportConfig ==
  /\ manager' = [manager EXCEPT !.exported = exportConfig(manager.storage),
                                !.exportedOf = manager.saved,
                                !.last = [call |-> "exportConfig", ok |-> TRUE]]
  /\ ConfigFrame

\* handleImport with the file exportConfig wrote
ManagerImportExported ==
  /\ manager.exported # NoItem
  /\ LET r == importConfig(manager.storage, manager.exported)
     IN  manager' = [manager EXCEPT
                       !.storage = r.storage,
                       !.saved = IF r.ok THEN Some(getConfig(r.storage)) ELSE @,
                       !.last = [call |-> "importExported", ok |-> r.ok]]
  /\ ConfigFrame

\* handleImport with another file
ManagerImportForeign(jsonString) ==
  /\ LET r == importConfig(manager.storage, jsonString)
     IN  manager' = [manager EXCEPT
                       !.storage = r.storage,
                       !.saved = IF r.ok THEN Some(getConfig(r.storage)) ELSE @,
                       !.last = [call |-> "importForeign", ok |-> r.ok]]
  /\ ConfigFrame

NextConfig ==
  \/ \E cfg \in PanelConfigs : ManagerSaveConfig(cfg)
  \/ ManagerResetConfig
  \/ \E selection \in RetrievalSelections : ManagerUpdateStage(selection)
  \/ \E enabled \in {"true", "false"} : ManagerUpdatePostProcess(enabled)
  \/ ManagerRemovePostProcess
  \/ ManagerExportConfig
  \/ ManagerImportExported
  \/ \E jsonString \in ForeignTexts : ManagerImportForeign(jsonString)

SpecConfig == InitConfig /\ [][NextConfig]_vars

\* C18: importing the string exportConfig produced for a saved configuration
\* cfg succeeds and leaves getConfig() equal to cfg.
C18_ConfigRoundTrip ==
  (manager # IdleOp
   /\ manager.last.call = "importExported"
   /\ manager.exportedOf # Undefined)
  => /\ manager.last.ok
     /\ getConfig(manager.storage) = manager.exportedOf[1]

\* a hybrid configuration with no post-processor was saved and exported as
\* an indented text, and importing that text succeeded
C18_Witness ==
  /\ manager # IdleOp
  /\ manager.last = [call |-> "importExported", ok |-> TRUE]
  /\ manager.exportedOf # Undefined
  /\ manager.exportedOf[1] # getDefaultConfig
  /\ Get(manager.exportedOf[1], "postProcess").items = <<>>
  /\ Get(Get(manager.exportedOf[1], "retrieval"), "strategyId") = Str("hybrid")
  /\ manager.exported # manager.storage.config

(***************************************************************************)
(* Further properties of the pipeline.                                     *)
(***************************************************************************)
\* C19 (checked under Spec): whenever an ingest returns, every persisted
\* document has indexedLexical = true, the documents left by earlier failed
\* ingests included.
C19_AllDocsIndexed ==
  ev.type = "ingestReturn"
  => \A d \in DOMAIN docs : docs[d].status.indexedLexical

\* C20 (checked under SpecQuery): a query that carries topK = k returns at
\* most k chunks and at most k citations, whatever the stored configuration.
C20_RequestTopK ==
  (ev.type = "queryReturn" /\ ev.query.topK # Undefined)
  => /\ Len(ev.retrieved) <= ev.query.topK[1]
     /\ Len(ev.citations) <= ev.query.topK[1]

(***************************************************************************)
(* SpecStrategy: how ingest and query look their strategies up in the      *)
(* registries.  The pipeline is constructed with a configuration whose     *)
(* strategy ids are the defaults, or with one of them naming a strategy    *)
(* no registry holds; queries carry every mode the search panels send      *)
(* ('lexical' is the value of the mode select of the search panel) or no   *)
(* mode at all.                                                            *)
(***************************************************************************)
MaxStrategyOps == 3

UnknownId == "no-such-strategy"

StrategyConfigs ==
  LET base(p) == [DefaultConfig EXCEPT !.polishEnabled = p]
  IN  UNION {{base(p),
              [base(p) EXCEPT !.chunking = UnknownId],
              [base(p) EXCEPT !.embedding = UnknownId],
              [base(p) EXCEPT !.retrieval = UnknownId],
              [base(p) EXCEPT !.retrieval = "bm25"],
              [base(p) EXCEPT !.generation = UnknownId],
              [base(p) EXCEPT !.postProcess = UnknownId]} : p \in BOOLEAN}

\* SearchQuery.mode as the panels send it
PanelModes == {NoMode, "lexical", "bm25", "semantic", "hybrid"}
StrategyQueries ==
  [text : {<<"fox">>}, mode : PanelModes, topK : {Undefined},
   alpha : {Undefined}, chatMode : ChatModes]
StrategyFiles == {f \in Files : f.type \in {"txt", "pdf", "unknown"}}

InitStrategy ==
  /\ ChunkIdle
  /\ AuxIdle
  /\ docs = EmptyMap /\ chunksStore = EmptyMap /\ vectors = EmptyMap
  /\ fileBlobs = {} /\ lexicalIndex = NoIndex
  /\ config \in StrategyConfigs
  /\ bm25Index = NoIndex /\ hybridIndex = NoIndex
  /\ ing = IdleOp /\ del = IdleOp /\ qry = IdleOp
  /\ events = <<>> /\ currentQueryId = Null /\ measurements = 0
  /\ ev = NoEvent
  /\ hist = [usedIds |-> {}, deleted |-> {}, lastWrite |-> "none", ops |-> 0,
             failures |-> 0]

NextStrategy ==
  \/ /\ hist.ops < MaxStrategyOps
     /\ \E file \in StrategyFiles : IngestStart(file, NextDocId)
  \/ IngestSteps
  \/ /\ hist.ops < MaxStrategyOps
     /\ \E query \in StrategyQueries : QueryStart(query)
  \/ QueryIndex
  \/ QuerySearch
  \/ QueryCitations
  \/ \E outcome \in GenerationOutcomes : QueryGenerate(outcome)
  \/ \E outcome \in PostProcessOutcomes : QueryPostProcess(outcome)

SpecStrategy == InitStrategy /\ [][NextStrategy]_vars

\* the retriever a mode of the search panels stands for
ModeRetriever(mode) == IF mode = "lexical" THEN "bm25" ELSE mode

\* C21: a query whose mode is lexical, bm25, semantic or hybrid never fails
\* with 'Retrieval strategy not found': it resolves to a registered
\* retriever, lexical and bm25 to the BM25 retriever, whatever retrieval
\* strategy the configuration names.
C21_ModeResolves ==
  (ev.type \in {"queryReturn", "queryThrow"}
     /\ ev.query.mode \in {"lexical", "bm25", "semantic", "hybrid"})
    => /\ ev.stage # "resolve"
       /\ ev.retriever = ModeRetriever(ev.query.mode)

\* the same for the modes the registry holds under their own name
C21_RegisteredModeResolves ==
  (ev.type \in {"queryReturn", "queryThrow"} /\ ev.query.mode \in RetrievalRegistry)
    => /\ ev.stage # "resolve"
       /\ ev.retriever = ev.query.mode

C21_Witness ==
  /\ ev.type = "queryReturn"
  /\ ev.query.mode = "hybrid"
  /\ config.retrieval = UnknownId
  /\ ev.retriever = "hybrid"

\* the event types a successful query logs, in the order of its stages
EventTypes(log) == [i \in DOMAIN log |-> log[i].type]

StageEvents(query, citations, cfg) ==
  <<"query_start", "retrieval_start", "retrieval_complete">>
  \o (IF query.chatMode = "chat" /\ Len(citations) > 0
      THEN <<"generation_start", "generation_complete">>
           \o (IF cfg.polishEnabled THEN <<"polish_start", "polish_complete">>
               ELSE <<>>)
      ELSE <<>>)
  \o <<"query_complete">>

C22_ChatWithoutCitations ==
  /\ ev.type = "queryReturn"
  /\ ev.query.chatMode = "chat"
  /\ Len(ev.citations) = 0
  /\ Len(events) = 4

\* the call of retrievalStrategy.retrieve rejected: semanticSearch threw, or
\* a request awaited inside retrieve did
RetrievalThrew ==
  /\ ev.type = "queryThrow"
  /\ \/ ev.stage = "retrieval"
     \/ ev.stage = "store" /\ ev.pc \in {"index", "search"}

ErrorEvents(log) == SelectSeq(log, LAMBDA e : e.type = "error")

\* what the failed call logged and measured
RetrievalFailureLogged ==
  /\ Len(ErrorEvents(events)) = 1
  /\ events[Len(events)].type = "error"
  /\ \A i \in DOMAIN events : events[i].type # "query_complete"
  /\ measurements = ev.measured
  /\ ev.retrieved = <<>> /\ ev.citations = <<>> /\ ev.answer = Undefined

\* C23: when the retrieval stage of a query throws, the call fails without
\* a result, exactly one error event is logged and no query_complete, no
\* latency sample is recorded, and docs, chunks, vectors, blobs and the
\* lexical snapshot are what they were when the query was called.
C23_RetrievalFailure ==
  RetrievalThrew => (RetrievalFailureLogged /\ storeVars = ev.before)

\* the claim without its last clause
C23_RetrievalFailureLogged ==
  RetrievalThrew => RetrievalFailureLogged

C23_Witness ==
  /\ RetrievalThrew
  /\ ev.retriever = "hybrid"
  /\ lexicalIndex # ev.before[5]

\* C24: an ingest rejected for an input error (an unsupported file kind, a
\* configuration naming an unregistered chunking or embedding strategy)
\* reports the error and leaves docs, chunks, vectors, blobs and the
\* lexical snapshot as they were before the call.
C24_RejectedIngestFrame ==
  (ev.type = "ingestThrow" /\ ev.cause \in {"unsupported", "chunking", "embedding"})
    => storeVars = ev.before

\* the rejections that happen before the first write
C24_EarlyRejectionFrame ==
  (ev.type = "ingestThrow" /\ ev.cause \in {"unsupported", "chunking"})
    => storeVars = ev.before

C24_Witness ==
  /\ ev.type = "ingestThrow"
  /\ ev.cause = "embedding"
  /\ ev.doc \in DOMAIN docs
  /\ \E c \in DOMAIN chunksStore : c[1] = ev.doc

\* a returned query that reached the generation stage
Generated == ev.query.chatMode = "chat" /\ Len(ev.citations) > 0

\* an operation returned although a stage it ran needed a strategy that the
\* registry of the stage does not hold
IngestSkippedStage ==
  /\ ev.type = "ingestReturn"
  /\ \/ config.chunking \notin ChunkingRegistry
     \/ config.embedding \notin EmbeddingRegistry

QuerySkippedStage ==
  /\ ev.type = "queryReturn"
  /\ \/ RetrievalStrategyId(ev.query, config) \notin RetrievalRegistry
     \/ Generated /\ config.generation \notin GenerationRegistry

QuerySkippedPostProcess ==
  /\ ev.type = "queryReturn"
  /\ Generated
  /\ config.polishEnabled
  /\ config.postProcess \notin PostProcessRegistry

\* C25: an operation whose stage needs a strategy with an unregistered id
\* (chunking or embedding in an ingest; retrieval, generation or an enabled
\* post-processor in a query) fails; it never returns with the stage
\* skipped.
C25_UnknownStrategyFails ==
  ~IngestSkippedStage /\ ~QuerySkippedStage /\ ~QuerySkippedPostProcess

\* the same for every stage but post-processing
C25_UnknownStageStrategyFails ==
  ~IngestSkippedStage /\ ~QuerySkippedStage

C25_Witness ==
  /\ QuerySkippedPostProcess
  /\ ev.generatedAnswer = ev.answer
  /\ \A i \in DOMAIN events : events[i].type \notin {"polish_start", "error"}

(***************************************************************************)
(* SpecSample: the Chat panel's checkDocuments, which loads the sample     *)
(* document for a first-time user (core/demo/loadSample), next to the      *)
(* user's own uploads and deletes.  sample.flag is the localStorage key    *)
(* 'demo-document-loaded' holding 'true'.                                  *)
(***************************************************************************)
\* new File([content], 'Welcome to Local NotebookLM.md')
SampleFile == [type |-> "md", texts |-> << <<"the", "fox">> >>]
UserFiles == {f \in Files : f.type \in {"txt", "pdf"}}

NoDecision == [made |-> FALSE, empty |-> FALSE, flag |-> FALSE, load |-> FALSE]

InitSample ==
  /\ ChunkIdle
  /\ PipeIdle
  /\ rank = IdleOp /\ up = IdleOp /\ logger = IdleOp /\ tracker = IdleOp
  /\ manager = IdleOp
  /\ embedder = IdleOp /\ writers = IdleOp /\ callers = IdleOp
  /\ sample = [pc |-> "idle", flag |-> FALSE, seeds |-> 0, last |-> NoDecision]

SampleFrame ==
  UNCHANGED <<chunkVars, storeVars, config, bm25Index, hybridIndex, ing, del, qry,
              logVars, rank, up, logger, tracker, manager, embedder, writers, callers>>

\* shouldLoadSampleDoc(): the answer and the flag it leaves
shouldLoadSampleDoc(allDocs, flag) ==
  IF Len(allDocs) = 0
  THEN [load |-> TRUE, flag |-> FALSE]        \* localStorage.removeItem
  ELSE IF flag THEN [load |-> FALSE, flag |-> flag]
  ELSE [load |-> Len(allDocs) = 0, flag |-> flag]

\* Chat mounts: checkDocuments() up to the answer of shouldLoadSampleDoc()
CheckDocuments ==
  /\ Quiescent
  /\ sample.pc = "idle"
  /\ hist.ops < MaxOps
  /\ LET answer == shouldLoadSampleDoc(getAllDocs, sample.flag)
     IN  sample' = [sample EXCEPT
                      !.pc = IF answer.load THEN "fetch" ELSE "idle",
                      !.flag = answer.flag,
                      !.last = [made |-> TRUE, empty |-> Len(getAllDocs) = 0,
                                flag |-> sample.flag, load |-> answer.load]]
  /\ ev' = [type |-> "checkDocuments"]
  /\ hist' = [hist EXCEPT !.ops = @ + 1]
  /\ SampleFrame

\* loadSampleDocument: await fetch('/demo/welcome.md'); a failed fetch is
\* caught and logged
SampleFetch(ok) ==
  /\ sample.pc = "fetch"
  /\ sample' = [sample EXCEPT !.pc = IF ok THEN "ingest" ELSE "idle"]
  /\ ev' = [type |-> IF ok THEN "sampleFetched" ELSE "sampleFailed"]
  /\ UNCHANGED hist
  /\ SampleFrame

\* await ingestDocument(file, ...): the call of pipeline.ingest
SampleIngestStart ==
  /\ sample.pc = "ingest"
  /\ ev.type = "sampleFetched"
  /\ IngestStart(SampleFile, NextDocId)

\* the ingest settled: localStorage.setItem(SAMPLE_DOC_KEY, 'true'), or the
\* catch that logs the error
SampleIngested ==
  /\ sample.pc = "ingest"
  /\ ev.type \in {"ingestReturn", "ingestThrow"}
  /\ sample' = IF ev.type = "ingestReturn"
               THEN [sample EXCEPT !.pc = "idle", !.flag = TRUE, !.seeds = @ + 1]
               ELSE [sample EXCEPT !.pc = "idle"]
  /\ ev' = [type |-> IF ev.type = "ingestReturn" THEN "sampleLoaded" ELSE "sampleFailed"]
  /\ UNCHANGED hist
  /\ SampleFrame

NextSample ==
  \/ CheckDocuments
  \/ \E ok \in BOOLEAN : SampleFetch(ok)
  \/ SampleIngestStart
  \/ SampleIngested
  \/ /\ sample.pc = "idle"
     /\ \E file \in UserFiles : IngestStart(file, NextDocId)
  \/ IngestSteps
  \/ IngestFail
  \/ /\ sample.pc = "idle"
     /\ \E d \in DocIds : DeleteStart(d)
  \/ DeleteSteps

SpecSample == InitSample /\ [][NextSample]_vars

\* C26: the sample is loaded iff the corpus is empty and the sample flag is
\* unset; the flag is set only by a sample ingest that succeeded; and the
\* sample is not loaded a second time (after the user deleted every
\* document).
C26_SampleSeeding ==
  /\ sample.last.made
       => (sample.last.load <=> (sample.last.empty /\ ~sample.last.flag))
  /\ sample.flag => sample.seeds > 0
  /\ ev.type = "sampleLoaded" => sample.flag
  /\ sample.seeds <= 1

\* what the code keeps of it: the sample is loaded iff the corpus is empty,
\* and the flag is set by, and only by, a sample ingest that succeeded
C26_SeededWhenEmpty ==
  /\ sample.last.made => (sample.last.load <=> sample.last.empty)
  /\ sample.flag => sample.seeds > 0
  /\ ev.type = "sampleLoaded" => sample.flag

C26_Witness ==
  /\ sample.seeds = 2
  /\ sample.last.flag
  /\ sample.last.empty
  /\ hist.deleted # {}

(***************************************************************************)
(* SpecEmbedder: the module variable embeddingPipeline of                  *)
(* core/index_vec/embeddings and the callers that need it: initializeApp   *)
(* (start-up), RAGPipeline.ingest through MiniLMEmbedder.initialize, and   *)
(* the semantic and hybrid retrievers through generateEmbedding.  Every    *)
(* await of initEmbeddingModel is a step, so calls interleave as the       *)
(* event loop lets them.                                                   *)
(***************************************************************************)
MaxCallers == 3
MaxEmbedderCalls == 4

Callers == 1..MaxCallers
CallerKinds == {"startup", "ingest", "query"}

InitEmbedder ==
  /\ ChunkIdle
  /\ PipeIdle
  /\ rank = IdleOp /\ up = IdleOp /\ logger = IdleOp /\ tracker = IdleOp
  /\ manager = IdleOp
  /\ sample = IdleOp /\ writers = IdleOp /\ callers = IdleOp
  /\ embedder = [pipeline |-> FALSE,      \* embeddingPipeline # null
                 initialized |-> FALSE,   \* MiniLMEmbedder.initialized
                 constructions |-> 0,     \* calls of pipeline('feature-extraction')
                 overlapped |-> FALSE,    \* two initializations were in flight
                 calls |-> 0,
                 at |-> [c \in Callers |-> [pc |-> "idle", kind |-> "startup"]]]

EmbedderFrame ==
  UNCHANGED <<chunkVars, pipeVars, rank, up, logger, tracker, manager, sample,
              writers, callers>>

Initializing(c) == embedder.at[c].pc \in {"device", "construct"}

\* does the caller get to initEmbeddingModel()?  initializeApp always does;
\* ingest does unless isReady(); generateEmbedding does if (!embeddingPipeline)
CallsInit(kind) ==
  CASE kind = "startup" -> TRUE
    [] kind = "ingest"  -> ~embedder.initialized
    [] kind = "query"   -> ~embedder.pipeline

\* the caller runs up to its first await; initEmbeddingModel returns at once
\* if (embeddingPipeline), else it awaits getBestDevice()
EmbedderCall(c, kind) ==
  /\ embedder.at[c].pc = "idle"
  /\ embedder.calls < MaxEmbedderCalls
  /\ LET starts == CallsInit(kind) /\ ~embedder.pipeline
     IN  embedder' = [embedder EXCEPT
                        !.calls = @ + 1,
                        !.overlapped = @ \/ (starts /\ \E o \in Callers : Initializing(o)),
                        !.at[c] = [pc |-> IF starts THEN "device" ELSE "ready",
                                   kind |-> kind]]
  /\ EmbedderFrame

\* getBestDevice() resolved: pipeline('feature-extraction', ...) is called
InitDevice(c) ==
  /\ embedder.at[c].pc = "device"
  /\ embedder' = [embedder EXCEPT !.constructions = @ + 1,
                                  !.at[c].pc = "construct"]
  /\ EmbedderFrame

\* embeddingPipeline = await pipeline(...)
InitConstruct(c) ==
  /\ embedder.at[c].pc = "construct"
  /\ embedder' = [embedder EXCEPT !.pipeline = TRUE, !.at[c].pc = "ready"]
  /\ EmbedderFrame

\* back in the caller: MiniLMEmbedder sets this.initialized = true, then
\* the embeddings are computed with the pipeline
EmbedderReady(c) ==
  /\ embedder.at[c].pc = "ready"
  /\ embedder' = [embedder EXCEPT
                    !.initialized = @ \/ embedder.at[c].kind = "ingest",
                    !.at[c].pc = "idle"]
  /\ EmbedderFrame

NextEmbedder ==
  \/ \E c \in Callers, kind \in CallerKinds : EmbedderCall(c, kind)
  \/ \E c \in Callers : InitDevice(c)
  \/ \E c \in Callers : InitConstruct(c)
  \/ \E c \in Callers : EmbedderReady(c)

SpecEmbedder == InitEmbedder /\ [][NextEmbedder]_vars

\* C27: whatever the interleaving of the callers that need the embedder,
\* the embedding model is constructed at most once.
C27_ConstructedOnce == embedder.constructions <= 1

\* callers whose initializations never overlap construct it once
C27_ConstructedOnceInTurn == ~embedder.overlapped => embedder.constructions <= 1

C27_Witness ==
  /\ embedder.constructions = 2
  /\ \E c, o \in Callers :
       /\ c # o
       /\ embedder.at[c].pc = "construct"
       /\ embedder.at[o].pc = "construct"

(***************************************************************************)
(* SpecOverlap: two RAGPipeline.ingest calls in flight at once.  A call    *)
(* runs from one await to the next in one step: the step resumes the call  *)
(* when the store request it awaits has succeeded, runs its synchronous    *)
(* code and issues the next request.  Every store function (storage/db)    *)
(* opens one transaction on one object store for its one request; the      *)
(* store runs the transactions on an object store in the order they were   *)
(* created, a read/write transaction only after every transaction created  *)
(* before it on that object store has finished.  So a request takes        *)
(* effect, and a read takes its value, in the order of issue, and the      *)
(* calls are resumed in that order for each object store.                  *)
(***************************************************************************)
Writers == {1, 2}
WriterFiles == {f \in Files : f.type # "unknown"}

WriterIdle == [pc |-> "idle", file |-> [type |-> "none", texts |-> <<>>],
               chunks |-> <<>>, i |-> 1, allChunks |-> <<>>]

InitOverlap ==
  /\ ChunkIdle
  /\ PipeIdle
  /\ rank = IdleOp /\ up = IdleOp /\ logger = IdleOp /\ tracker = IdleOp
  /\ manager = IdleOp
  /\ sample = IdleOp /\ embedder = IdleOp /\ callers = IdleOp
  /\ writers = [at |-> [p \in Writers |-> WriterIdle], pending |-> <<>>]

OverlapFrame ==
  UNCHANGED <<chunkVars, config, bm25Index, hybridIndex, ing, del, qry, logVars, ev,
              hist, rank, up, logger, tracker, manager, sample, embedder, callers>>

\* the requests issued and not yet succeeded, in the order of issue
PendingOf(p) == SelectSeq(writers.pending, LAMBDA r : r.p = p)
PendingBefore(p) ==
  LET k == CHOOSE i \in DOMAIN writers.pending : writers.pending[i].p = p
  IN  SubSeq(writers.pending, 1, k - 1)

\* a store that resumes the calls in any order
SucceededInAnyOrder(p) == TRUE

\* the request the call awaits has succeeded: no request issued before it on
\* the same object store is still to succeed, unless both only read
Succeeded(p) ==
  \/ PendingOf(p) = <<>>
  \/ \A i \in DOMAIN PendingBefore(p) :
        LET mine == PendingOf(p)[1]
            other == PendingBefore(p)[i]
        IN  other.store # mine.store \/ (~other.write /\ ~mine.write)

\* the call p goes on to await a request on an object store
Issued(p, w, store, write) ==
  [at |-> [writers.at EXCEPT ![p] = w],
   pending |-> Append(SelectSeq(writers.pending, LAMBDA r : r.p # p),
                      [p |-> p, store |-> store, write |-> write])]

\* the call p goes on to await something that is no store request
Awaiting(p, w) ==
  [at |-> [writers.at EXCEPT ![p] = w],
   pending |-> SelectSeq(writers.pending, LAMBDA r : r.p # p)]

WriterDoc(p, file, vector, lexical) ==
  [id |-> p, name |-> DocName(p), type |-> file.type,
   status |-> [parsed |-> TRUE, indexedLexical |-> lexical, indexedVector |-> vector]]

\* ingestFile, chunk, then await saveDoc(doc)
WriterCall(p, file) ==
  /\ writers.at[p].pc = "idle"
  /\ docs' = Put(docs, p, WriterDoc(p, file, FALSE, FALSE))
  /\ writers' = Issued(p, [WriterIdle EXCEPT !.pc = "saveDoc", !.file = file,
                                             !.chunks = ChunksOfFile(p, file)],
                       "docs", TRUE)
  /\ UNCHANGED <<chunksStore, vectors, fileBlobs, lexicalIndex>>
  /\ OverlapFrame

\* the step after the document row (and the blob of a pdf) is saved: the
\* first saveChunk, or with no chunk the embedder
WriterChunksOrEmbed(p, w) ==
  IF Len(w.chunks) > 0
  THEN /\ chunksStore' = Put(chunksStore, w.chunks[1].id, w.chunks[1])
       /\ writers' = Issued(p, [w EXCEPT !.pc = "saveChunk", !.i = 1], "chunks", TRUE)
  ELSE /\ writers' = Awaiting(p, [w EXCEPT !.pc = "embed"])
       /\ UNCHANGED chunksStore

\* saveDoc succeeded: if (doc.type === 'pdf') await saveFileBlob(...)
WriterDocSaved(p) ==
  /\ writers.at[p].pc = "saveDoc"
  /\ Succeeded(p)
  /\ IF writers.at[p].file.type = "pdf"
     THEN /\ fileBlobs' = fileBlobs \cup {p}
          /\ writers' = Issued(p, [writers.at[p] EXCEPT !.pc = "saveFileBlob"],
                               "files", TRUE)
          /\ UNCHANGED chunksStore
     ELSE /\ WriterChunksOrEmbed(p, writers.at[p])
          /\ UNCHANGED fileBlobs
  /\ UNCHANGED <<docs, vectors, lexicalIndex>>
  /\ OverlapFrame

WriterBlobSaved(p) ==
  /\ writers.at[p].pc = "saveFileBlob"
  /\ Succeeded(p)
  /\ WriterChunksOrEmbed(p, writers.at[p])
  /\ UNCHANGED <<docs, vectors, fileBlobs, lexicalIndex>>
  /\ OverlapFrame

\* for (const chunk of chunks) await saveChunk(chunk); then the embedder
WriterChunkSaved(p) ==
  /\ writers.at[p].pc = "saveChunk"
  /\ Succeeded(p)
  /\ LET w == writers.at[p]
     IN  IF w.i < Len(w.chunks)
         THEN /\ chunksStore' = Put(chunksStore, w.chunks[w.i + 1].id, w.chunks[w.i + 1])
              /\ writers' = Issued(p, [w EXCEPT !.i = @ + 1], "chunks", TRUE)
         ELSE /\ writers' = Awaiting(p, [w EXCEPT !.pc = "embed"])
              /\ UNCHANGED chunksStore
  /\ UNCHANGED <<docs, vectors, fileBlobs, lexicalIndex>>
  /\ OverlapFrame

\* doc.status.indexedVector = true; await saveDoc(doc)
WriterSaveDocVector(p, w) ==
  /\ docs' = Put(docs, p, WriterDoc(p, w.file, TRUE, FALSE))
  /\ writers' = Issued(p, [w EXCEPT !.pc = "saveDocVector"], "docs", TRUE)

\* embedBatch resolved: the first saveVector, or with no chunk the saveDoc
WriterEmbedded(p) ==
  /\ writers.at[p].pc = "embed"
  /\ LET w == writers.at[p]
         texts == [i \in DOMAIN w.chunks |-> w.chunks[i].text]
     IN  IF Len(w.chunks) > 0
         THEN /\ vectors' = Put(vectors, w.chunks[1].id,
                                embedBatch(config.embedding, texts)[1])
              /\ writers' = Issued(p, [w EXCEPT !.pc = "saveVector", !.i = 1],
                                   "vectors", TRUE)
              /\ UNCHANGED docs
         ELSE /\ WriterSaveDocVector(p, w)
              /\ UNCHANGED vectors
  /\ UNCHANGED <<chunksStore, fileBlobs, lexicalIndex>>
  /\ OverlapFrame

\* for (i ...) await saveVector(chunks[i].id, embeddings[i]); then saveDoc
WriterVectorSaved(p) ==
  /\ writers.at[p].pc = "saveVector"
  /\ Succeeded(p)
  /\ LET w == writers.at[p]
         texts == [i \in DOMAIN w.chunks |-> w.chunks[i].text]
     IN  IF w.i < Len(w.chunks)
         THEN /\ vectors' = Put(vectors, w.chunks[w.i + 1].id,
                                embedBatch(config.embedding, texts)[w.i + 1])
              /\ writers' = Issued(p, [w EXCEPT !.i = @ + 1], "vectors", TRUE)
              /\ UNCHANGED docs
         ELSE /\ WriterSaveDocVector(p, w)
              /\ UNCHANGED vectors
  /\ UNCHANGED <<chunksStore, fileBlobs, lexicalIndex>>
  /\ OverlapFrame

\* saveDoc succeeded: const allChunks = await getAllChunks()
WriterDocVectorSaved(p) ==
  /\ writers.at[p].pc = "saveDocVector"
  /\ Succeeded(p)
  /\ writers' = Issued(p, [writers.at[p] EXCEPT !.pc = "getAllChunks",
                                                !.allChunks = getAllChunks],
                       "chunks", FALSE)
  /\ UNCHANGED storeVars
  /\ OverlapFrame

\* getAllChunks succeeded: buildLexicalIndex(allChunks);
\* await saveLexicalIndex(lexicalIndex)
WriterChunksRead(p) ==
  /\ writers.at[p].pc = "getAllChunks"
  /\ Succeeded(p)
  /\ lexicalIndex' = Serialize(buildLexicalIndex(writers.at[p].allChunks))
  /\ writers' = Issued(p, [writers.at[p] EXCEPT !.pc = "saveLexicalIndex"],
                       "lexical_index", TRUE)
  /\ UNCHANGED <<docs, chunksStore, vectors, fileBlobs>>
  /\ OverlapFrame

\* doc.status.indexedLexical = true; await saveDoc(doc)
WriterIndexSaved(p) ==
  /\ writers.at[p].pc = "saveLexicalIndex"
  /\ Succeeded(p)
  /\ docs' = Put(docs, p, WriterDoc(p, writers.at[p].file, TRUE, TRUE))
  /\ writers' = Issued(p, [writers.at[p] EXCEPT !.pc = "saveDocLexical"], "docs", TRUE)
  /\ UNCHANGED <<chunksStore, vectors, fileBlobs, lexicalIndex>>
  /\ OverlapFrame

\* saveDoc succeeded: return { doc, chunks, ... }
WriterReturn(p) ==
  /\ writers.at[p].pc = "saveDocLexical"
  /\ Succeeded(p)
  /\ writers' = Awaiting(p, [writers.at[p] EXCEPT !.pc = "returned"])
  /\ UNCHANGED storeVars
  /\ OverlapFrame

NextOverlap ==
  \/ \E p \in Writers, file \in WriterFiles : WriterCall(p, file)
  \/ \E p \in Writers : WriterDocSaved(p)
  \/ \E p \in Writers : WriterBlobSaved(p)
  \/ \E p \in Writers : WriterChunkSaved(p)
  \/ \E p \in Writers : WriterEmbedded(p)
  \/ \E p \in Writers : WriterVectorSaved(p)
  \/ \E p \in Writers : WriterDocVectorSaved(p)
  \/ \E p \in Writers : WriterChunksRead(p)
  \/ \E p \in Writers : WriterIndexSaved(p)
  \/ \E p \in Writers : WriterReturn(p)

SpecOverlap == InitOverlap /\ [][NextOverlap]_vars

BothReturned == \A p \in Writers : writers.at[p].pc = "returned"
WriterChunkIds == UNION {ChunkIdsOf(writers.at[p].chunks) : p \in Writers}

\* C28: when two overlapping ingest calls have both returned, the persisted
\* lexical snapshot lists the chunk ids of both documents.
C28_BothInSnapshot ==
  BothReturned
    => /\ lexicalIndex # NoIndex
       /\ WriterChunkIds \subseteq ChunkIdSet(loadLexicalIndex(lexicalIndex))

\* both calls have returned, and one of them read the chunks while the
\* other had saved only some of its own
C28_Witness ==
  /\ BothReturned
  /\ \A p \in Writers : Len(writers.at[p].chunks) > 0
  /\ \E p \in Writers :
       ChunkIdsOf(writers.at[p].allChunks) # WriterChunkIds

(***************************************************************************)
(* SpecTwoQueries: two RAGPipeline.query calls in flight at once and the   *)
(* one DebugLogger they log to.  A call runs from one await to the next in *)
(* one step.  An event records the query id the logger gave it (the prefix *)
(* of its id, 0 standing for null and 'unknown') and the call that logged  *)
(* it.                                                                     *)
(***************************************************************************)
MaxQueryCalls == 3

QueryCallers == {1, 2}
NoQuery == 0

InitTwoQueries ==
  /\ ChunkIdle
  /\ PipeIdle
  /\ rank = IdleOp /\ up = IdleOp /\ logger = IdleOp /\ tracker = IdleOp
  /\ manager = IdleOp
  /\ sample = IdleOp /\ embedder = IdleOp /\ writers = IdleOp
  /\ callers = [lg |-> [cur |-> NoQuery, log |-> <<>>, dropped |-> 0],
                calls |-> 0,
                overlapped |-> FALSE,
                returned |-> {},
                at |-> [q \in QueryCallers |-> [pc |-> "idle", id |-> NoQuery,
                                                chat |-> FALSE]]]

TwoQueriesFrame ==
  UNCHANGED <<chunkVars, pipeVars, rank, up, logger, tracker, manager, sample,
              embedder, writers>>

InFlight(q) == callers.at[q].pc \in {"retrieve", "generate"}

\* startQuery: this.currentQueryId = queryId; addEvent(query_start)
LogStart(lg, id) ==
  [lg EXCEPT !.cur = id,
             !.log = Append(@, [type |-> "query_start", queryId |-> id, by |-> id])]

\* logRetrievalStart ... logPolishComplete: if (!this.currentQueryId) return;
\* addEvent({ id: `${this.currentQueryId}-...`, type })
LogStage(lg, type, id) ==
  IF lg.cur = NoQuery THEN [lg EXCEPT !.dropped = @ + 1]
  ELSE [lg EXCEPT !.log = Append(@, [type |-> type, queryId |-> lg.cur, by |-> id])]

\* logQueryComplete: the same, then this.currentQueryId = null
LogComplete(lg, id) ==
  IF lg.cur = NoQuery THEN [lg EXCEPT !.dropped = @ + 1]
  ELSE [lg EXCEPT !.log = Append(@, [type |-> "query_complete", queryId |-> lg.cur,
                                     by |-> id]),
                  !.cur = NoQuery]

\* logError: addEvent({ id: `${this.currentQueryId || 'unknown'}-error-...` })
LogFailure(lg, id) ==
  [lg EXCEPT !.log = Append(@, [type |-> "error", queryId |-> lg.cur, by |-> id])]

\* startQuery, logRetrievalStart, await getAllChunks() and retrieve
CallerStart(q, chat) ==
  /\ ~InFlight(q)
  /\ callers.calls < MaxQueryCalls
  /\ LET id == callers.calls + 1
     IN  callers' = [callers EXCEPT
                       !.lg = LogStage(LogStart(@, id), "retrieval_start", id),
                       !.calls = id,
                       !.overlapped = @ \/ \E o \in QueryCallers : InFlight(o),
                       !.at[q] = [pc |-> "retrieve", id |-> id, chat |-> chat]]
  /\ TwoQueriesFrame

\* logRetrievalComplete; a chat query with citations: logGenerationStart and
\* await generate; else record the latency, logQueryComplete and return
CallerRetrieved(q) ==
  /\ callers.at[q].pc = "retrieve"
  /\ LET id == callers.at[q].id
         retrieved == LogStage(callers.lg, "retrieval_complete", id)
     IN  IF callers.at[q].chat
         THEN callers' = [callers EXCEPT
                            !.lg = LogStage(retrieved, "generation_start", id),
                            !.at[q].pc = "generate"]
         ELSE callers' = [callers EXCEPT
                            !.lg = LogComplete(retrieved, id),
                            !.returned = @ \cup {id},
                            !.at[q].pc = "returned"]
  /\ TwoQueriesFrame

\* logGenerationComplete, no post-processor enabled, logQueryComplete, return
CallerGenerated(q) ==
  /\ callers.at[q].pc = "generate"
  /\ LET id == callers.at[q].id
     IN  callers' = [callers EXCEPT
                       !.lg = LogComplete(LogStage(@, "generation_complete", id), id),
                       !.returned = @ \cup {id},
                       !.at[q].pc = "returned"]
  /\ TwoQueriesFrame

\* the awaited stage rejects: catch, logError, rethrow
CallerThrew(q) ==
  /\ InFlight(q)
  /\ callers' = [callers EXCEPT !.lg = LogFailure(@, callers.at[q].id),
                                !.at[q].pc = "threw"]
  /\ TwoQueriesFrame

NextTwoQueries ==
  \/ \E q \in QueryCallers, chat \in BOOLEAN : CallerStart(q, chat)
  \/ \E q \in QueryCallers : CallerRetrieved(q)
  \/ \E q \in QueryCallers : CallerGenerated(q)
  \/ \E q \in QueryCallers : CallerThrew(q)

SpecTwoQueries == InitTwoQueries /\ [][NextTwoQueries]_vars

CompletesOf(id) ==
  {i \in DOMAIN callers.lg.log :
     callers.lg.log[i].type = "query_complete" /\ callers.lg.log[i].queryId = id}

OwnEvents ==
  /\ \A i \in DOMAIN callers.lg.log : callers.lg.log[i].queryId = callers.lg.log[i].by
  /\ \A id \in callers.returned : Cardinality(CompletesOf(id)) = 1
  /\ callers.lg.dropped = 0

\* C29: when two queries overlap, every event a query logs is recorded
\* under that query's id, a query that returns has exactly one
\* query_complete event, and no event is dropped.
C29_OwnEvents == OwnEvents

\* the same for queries that run one after the other
C29_OwnEventsInTurn == ~callers.overlapped => OwnEvents

\* two overlapping queries have returned; the first to return took the
\* logger's current id with it and the other's query_complete was dropped
C29_Witness ==
  /\ callers.overlapped
  /\ Cardinality(callers.returned) = 2
  /\ callers.lg.dropped > 0
  /\ \E id \in callers.returned : CompletesOf(id) = {}

\* C30: every chunk a query returns, in any mode, and every citation built
\* from it, is a chunk of the chunk set the query read when it started,
\* also when the lexical index it scored against lists ids of chunks
\* deleted since.
C30_ReturnedChunksWereRead ==
  ev.type = "queryReturn"
    => /\ \A i \in DOMAIN ev.retrieved : ev.retrieved[i].chunk \in Range(ev.chunks)
       /\ \A i \in DOMAIN ev.citations : ev.citations[i].chunkId \in ChunkIdsOf(ev.chunks)

\* a lexical or hybrid query returned chunks scored against an index that
\* lists a chunk id the query did not read
C30_Witness ==
  /\ ev.type = "queryReturn"
  /\ ev.retriever \in {"bm25", "hybrid"}
  /\ ~(ChunkIdSet(ev.index) \subseteq ChunkIdsOf(ev.chunks))
  /\ Len(ev.retrieved) > 0
  /\ Len(ev.citations) > 0

=============================================================================
